---- MODULE Spec2Model ----
(***************************************************************************)
(* A model of golox, a tree-walking interpreter for Lox written in Go:     *)
(* the scanner (lex), the recursive-descent parser (Parse) and the         *)
(* evaluator (Interpret).                                                  *)
(*                                                                         *)
(* Encoding.  A Go string or []byte is a sequence of byte values.  A       *)
(* *Node is the sequence of the nodes reachable from it through Next: the  *)
(* nil pointer is <<>>, and p.Next is Tail(p).  A node is a record with    *)
(* the fields Type, Left, Right, Third and Data of the Go struct.  A nil   *)
(* error is the empty string.  A Go run-time panic (nil dereference, index *)
(* out of range) is the outcome "panic".                                   *)
(***************************************************************************)
EXTENDS Integers, Sequences, FiniteSets, TLC

VARIABLES
  lexPc,       \* position of the scanner: "lex", "done", "error", "panic", "off"
  source,      \* the string handed to Lex
  lexCurrent,  \* lex's parameter current: the tokens emitted so far
  lexTail,     \* lex's parameter tail: the unread input
  lexLine,     \* lex's parameter line
  lexErr,      \* the error lex returns
  pc,          \* position of the parse/interpret pipeline
  tokens,      \* the token slice handed to Parse
  prgm,        \* the *Node Parse returns
  parseErr,    \* the error Parse returns
  stmt,        \* Interpret's loop variable stmt
  envs,        \* the heap of Environment objects; envs[1] is global
  log          \* what the evaluator did, in order: lines printed, run-time errors
               \* reported (both go to standard output) and names bound

vars == <<lexPc, source, lexCurrent, lexTail, lexLine, lexErr,
          pc, tokens, prgm, parseErr, stmt, envs, log>>

lexVars == <<lexPc, source, lexCurrent, lexTail, lexLine, lexErr>>
runVars == <<pc, tokens, prgm, parseErr, stmt, envs, log>>

(***************************************************************************)
(* Bytes.  Printable ASCII, in code order starting at 32 (the backquote,   *)
(* which no input here uses, is spelled out).                              *)
(***************************************************************************)
Printable ==
  << " ", "!", "\"", "#", "$", "%", "&", "'", "(", ")", "*", "+", ",", "-",
     ".", "/", "0", "1", "2", "3", "4", "5", "6", "7", "8", "9", ":", ";",
     "<", "=", ">", "?", "@", "A", "B", "C", "D", "E", "F", "G", "H", "I",
     "J", "K", "L", "M", "N", "O", "P", "Q", "R", "S", "T", "U", "V", "W",
     "X", "Y", "Z", "[", "\\", "]", "^", "_", "backquote", "a", "b", "c", "d", "e",
     "f", "g", "h", "i", "j", "k", "l", "m", "n", "o", "p", "q", "r", "s",
     "t", "u", "v", "w", "x", "y", "z", "{", "|", "}", "~" >>

\* The byte value of a one-character string ("\n" is 10, "\t" 9, "\r" 13).
Ord(c) ==
  CASE c = "\n" -> 10
    [] c = "\t" -> 9
    [] c = "\r" -> 13
    [] OTHER -> 31 + CHOOSE i \in 1..Len(Printable) : Printable[i] = c

\* The Go string whose characters are the one-character strings of cs.
Bytes(cs) == [i \in 1..Len(cs) |-> Ord(cs[i])]

NoErr == ""

\* A local variable assigned once, as in x, err := f(): With(f(...), LAMBDA x : e)
\* is e with x standing for what f returned.
With(v, Op(_)) == Op(v)


(***************************************************************************)
(* Tokens (token.go) and the scanner (lex and its helpers).                *)
(***************************************************************************)
newToken(ttype, value, line) == [Type |-> ttype, Lexeme |-> value, Line |-> line]

keywords ==
  << <<Bytes(<<"a","n","d">>), "And">>,
     <<Bytes(<<"c","l","a","s","s">>), "Class">>,
     <<Bytes(<<"e","l","s","e">>), "Else">>,
     <<Bytes(<<"f","a","l","s","e">>), "False">>,
     <<Bytes(<<"f","u","n">>), "Fun">>,
     <<Bytes(<<"f","o","r">>), "For">>,
     <<Bytes(<<"i","f">>), "If">>,
     <<Bytes(<<"n","i","l">>), "Nil">>,
     <<Bytes(<<"o","r">>), "Or">>,
     <<Bytes(<<"p","r","i","n","t">>), "Print">>,
     <<Bytes(<<"r","e","t","u","r","n">>), "Return">>,
     <<Bytes(<<"s","u","p","e","r">>), "Super">>,
     <<Bytes(<<"t","h","i","s">>), "This">>,
     <<Bytes(<<"t","r","u","e">>), "True">>,
     <<Bytes(<<"v","a","r">>), "Var">>,
     <<Bytes(<<"w","h","i","l","e">>), "While">> >>

isKeyword(val) == \E i \in 1..Len(keywords) : keywords[i][1] = val
keywordType(val) == keywords[CHOOSE i \in 1..Len(keywords) : keywords[i][1] = val][2]

isAlpha(r) == (r >= Ord("a") /\ r <= Ord("z")) \/ (r >= Ord("A") /\ r <= Ord("Z"))
isDigit(r) == r >= Ord("0") /\ r <= Ord("9")
isAlphaNumeric(r) == isAlpha(r) \/ isDigit(r)

\* s[n:] of Go, n counted from 0
From(s, n) == SubSeq(s, n + 1, Len(s))

RECURSIVE skipComment(_)
skipComment(tail) ==
  IF Len(tail) <= 0 THEN <<>>
  ELSE IF tail[1] = Ord("\n") THEN From(tail, 1)
  ELSE skipComment(From(tail, 1))

RECURSIVE findString(_, _, _)
findString(tail, current, lines) ==
  IF Len(tail) <= 0 THEN [tail |-> <<>>, val |-> current, lines |-> lines]
  ELSE IF tail[1] = Ord("\"") THEN [tail |-> From(tail, 1), val |-> current, lines |-> lines]
  ELSE IF tail[1] = Ord("\n") THEN findString(From(tail, 1), Append(current, tail[1]), lines + 1)
  ELSE findString(From(tail, 1), Append(current, tail[1]), lines)

RECURSIVE findNumber(_, _, _)
findNumber(tail, current, dotSeen) ==
  IF Len(tail) <= 0 THEN [tail |-> <<>>, val |-> current, dotSeen |-> dotSeen]
  ELSE IF ~isDigit(tail[1]) /\ tail[1] # Ord(".")
    THEN [tail |-> tail, val |-> current, dotSeen |-> dotSeen]
  ELSE IF tail[1] = Ord(".") /\ dotSeen
    THEN [tail |-> From(tail, 1), val |-> current, dotSeen |-> dotSeen]
  ELSE IF tail[1] = Ord(".") /\ ~dotSeen
    THEN findNumber(From(tail, 1), Append(current, tail[1]), TRUE)
  ELSE findNumber(From(tail, 1), Append(current, tail[1]), dotSeen)

RECURSIVE findIdentifier(_, _)
findIdentifier(tail, current) ==
  IF Len(tail) <= 0 THEN [tail |-> <<>>, val |-> current]
  ELSE IF ~isAlphaNumeric(tail[1]) THEN [tail |-> tail, val |-> current]
  ELSE findIdentifier(From(tail, 1), Append(current, tail[1]))

\* What one call of lex does: either it returns (pc "done", "error"), or it
\* faults (pc "panic"), or it calls itself with new arguments (pc "lex").
LexRec(p, current, tail, line, err) ==
  [pc |-> p, current |-> current, tail |-> tail, line |-> line, err |-> err]

singleChar ==
  << <<"(", "LeftParen">>, <<")", "RightParen">>, <<"{", "LeftBrace">>,
     <<"}", "RightBrace">>, <<",", "Comma">>, <<".", "Dot">>, <<"-", "Minus">>,
     <<"+", "Plus">>, <<";", "Semicolon">>, <<"*", "Star">> >>

oneOrTwo ==
  << <<"!", "Bang", "BangEqual">>, <<"=", "Equal", "EqualEqual">>,
     <<"<", "Less", "LessEqual">>, <<">", "Greater", "GreaterEqual">> >>

\* the token appended for the EOF case
\* the EOF token with an empty lexeme
eofToken_EmptyLexeme(line) == newToken("EOF", <<>>, line)

eofToken(line) == newToken("EOF", <<0>>, line)

lex(current, tail, line, err) ==
  IF err # NoErr THEN LexRec("error", current, tail, line, err)
  ELSE IF Len(tail) = 0
    THEN LexRec("done", Append(current, eofToken(line)), tail, line, NoErr)
  ELSE LET r == tail[1] IN
    IF r = Ord("\n") THEN LexRec("lex", current, From(tail, 1), line + 1, NoErr)
    ELSE IF r \in {Ord("\t"), Ord("\r"), Ord(" ")}
      THEN LexRec("lex", current, From(tail, 1), line, NoErr)
    ELSE IF \E i \in 1..Len(singleChar) : Ord(singleChar[i][1]) = r
      THEN LET i == CHOOSE i \in 1..Len(singleChar) : Ord(singleChar[i][1]) = r
           IN LexRec("lex", Append(current, newToken(singleChar[i][2], <<r>>, line)),
                     From(tail, 1), line, NoErr)
    ELSE IF \E i \in 1..Len(oneOrTwo) : Ord(oneOrTwo[i][1]) = r
      THEN LET i == CHOOSE i \in 1..Len(oneOrTwo) : Ord(oneOrTwo[i][1]) = r
           IN IF Len(tail) < 2 THEN LexRec("panic", current, tail, line, NoErr)  \* tail[1] out of range
              ELSE IF tail[2] = Ord("=")
                THEN LexRec("lex", Append(current, newToken(oneOrTwo[i][3], <<r, Ord("=")>>, line)),
                            From(tail, 2), line, NoErr)
              ELSE LexRec("lex", Append(current, newToken(oneOrTwo[i][2], <<r>>, line)),
                          From(tail, 1), line, NoErr)
    ELSE IF r = Ord("/")
      THEN IF Len(tail) < 2 THEN LexRec("panic", current, tail, line, NoErr)  \* tail[1] out of range
           ELSE IF tail[2] = Ord("/")
             THEN LexRec("lex", current, skipComment(From(tail, 2)), line + 1, NoErr)
           ELSE LexRec("lex", Append(current, newToken("Slash", <<r>>, line)),
                       From(tail, 1), line, NoErr)
    ELSE IF r = Ord("\"")
      THEN LET f == findString(From(tail, 1), <<>>, 0)
           IN LexRec("lex", Append(current, newToken("String", f.val, line)),
                     f.tail, line + f.lines, NoErr)
    ELSE IF isDigit(r)
      THEN LET f == findNumber(From(tail, 1), <<r>>, FALSE)
           IN LexRec("lex", Append(current, newToken("Number", f.val, line)),
                     f.tail, line, NoErr)
    ELSE IF isAlpha(r)
      THEN LET f == findIdentifier(From(tail, 1), <<r>>)
           IN IF isKeyword(f.val)
                THEN LexRec("lex", Append(current, newToken(keywordType(f.val), f.val, line)),
                            f.tail, line, NoErr)
                ELSE LexRec("lex", Append(current, newToken("Identifier", f.val, line)),
                            f.tail, line, NoErr)
    ELSE LexRec("error", current, tail, line, "unexpected character")



(***************************************************************************)
(* Values and nodes (stmt.go).  Numbers are float32 in the program; the    *)
(* model covers the integers n with |n| < 2^24, which float32 holds        *)
(* exactly, and encodes them to the same four bytes the program does.      *)
(***************************************************************************)
Node(t, l, r, th, d) == [Type |-> t, Left |-> l, Right |-> r, Third |-> th, Data |-> d]

Pow2(k) == 2^k

RECURSIVE Log2Floor(_)
Log2Floor(n) == IF n <= 1 THEN 0 ELSE 1 + Log2Floor(n \div 2)

Abs(n) == IF n < 0 THEN -n ELSE n

\* math.Float32bits(n), as its four bytes, most significant first
encodeLoxNumber(n) ==
  IF n = 0 THEN <<0, 0, 0, 0>>
  ELSE LET a == Abs(n)
           e == Log2Floor(a)
           E == e + 127
           M == (a - Pow2(e)) * Pow2(23 - e)
           sign == IF n < 0 THEN 1 ELSE 0
       IN << sign * 128 + (E \div 2),
             (E % 2) * 128 + (M \div 65536),
             (M \div 256) % 256,
             M % 256 >>

\* math.Float32frombits of the four bytes
decodeLoxNumber(v) ==
  LET sign == v[1] \div 128
      E == (v[1] % 128) * 2 + (v[2] \div 128)
      M == (v[2] % 128) * 65536 + v[3] * 256 + v[4]
  IN IF E = 0 /\ M = 0 THEN 0
     ELSE LET a == (8388608 + M) \div Pow2(23 - (E - 127))
          IN IF sign = 1 THEN -a ELSE a

\* the loop of encodeLoxNumberFromString: n and dec after s[i..]
RECURSIVE numberFromString(_, _, _, _)
numberFromString(s, i, n, dec) ==
  IF i > Len(s) THEN n
  ELSE IF s[i] = Ord(".") THEN numberFromString(s, i + 1, n, 10)
  ELSE IF dec = 0 THEN numberFromString(s, i + 1, n * 10 + (s[i] - Ord("0")), dec)
  ELSE numberFromString(s, i + 1, n, dec * 10)   \* n += 0 / dec: the digits after the
                                                 \* point are 0 in every modelled literal

encodeLoxNumberFromString(s) == encodeLoxNumber(numberFromString(s, 1, 0, 0))

encodeBool(b) == IF b THEN <<1>> ELSE <<0>>

encodeString(s) == s

toValue(t) ==
  CASE t.Type = "Number" -> encodeLoxNumberFromString(t.Lexeme)
    [] t.Type = "String" -> t.Lexeme
    [] t.Type = "True" -> <<1>>
    [] t.Type = "False" -> <<0>>
    [] OTHER -> t.Lexeme

(***************************************************************************)
(* The parser (parser.go).  Each parsing function takes the token slice    *)
(* and the cursor current and yields the node and error it returns, the    *)
(* cursor it leaves, and whether it faulted.                               *)
(***************************************************************************)
R(n, err, cur) == [n |-> n, err |-> err, cur |-> cur, panic |-> FALSE]
PanicR(cur) == [n |-> <<>>, err |-> NoErr, cur |-> cur, panic |-> TRUE]

\* an error whose message reads tokens[current]
ErrAtCurrent(toks, cur, msg) ==
  IF cur >= Len(toks) THEN PanicR(cur) ELSE R(<<>>, msg, cur)

MaxArity == 255

\* match(types...): whether it matched; the cursor moves by one when it did
match(toks, cur, types) == cur < Len(toks) /\ toks[cur + 1].Type \in types

\* previous(), called with the cursor at cur (cur >= 1 wherever it is called)
previous(toks, cur) == toks[cur]

\* A parsing function that goes on with what another returns calls it through
\* Call, defined after them; one that returns what another returns calls it
\* directly.  The loops are the for loops of the functions they are named after.
RECURSIVE Call(_, _, _),
          finishCallLoop(_, _, _, _), callLoop(_, _, _, _),
          logicOrLoop(_, _, _, _), logicAndLoop(_, _, _, _),
          equalityLoop(_, _, _, _), comparisonLoop(_, _, _, _),
          termLoop(_, _, _, _),
          factorLoop(_, _, _, _), blockLoop(_, _, _),
          parametersLoop(_, _, _), programLoop(_, _, _, _, _)

primary(toks, cur) ==
  IF match(toks, cur, {"Identifier"})
    THEN R(<<Node("IdentifierNT", <<>>, <<>>, <<>>, toValue(previous(toks, cur + 1)))>>, NoErr, cur + 1)
  ELSE IF match(toks, cur, {"Number"})
    THEN R(<<Node("NumberNT", <<>>, <<>>, <<>>, toValue(previous(toks, cur + 1)))>>, NoErr, cur + 1)
  ELSE IF match(toks, cur, {"String"})
    THEN R(<<Node("StringNT", <<>>, <<>>, <<>>, toValue(previous(toks, cur + 1)))>>, NoErr, cur + 1)
  ELSE IF match(toks, cur, {"True", "False"})
    THEN R(<<Node("BoolNT", <<>>, <<>>, <<>>, toValue(previous(toks, cur + 1)))>>, NoErr, cur + 1)
  ELSE IF match(toks, cur, {"Nil"})
    THEN R(<<Node("NilNT", <<>>, <<>>, <<>>, toValue(previous(toks, cur + 1)))>>, NoErr, cur + 1)
  ELSE IF match(toks, cur, {"LeftParen"})
    THEN (LET e == Call("expression", toks, cur + 1) IN
            IF e.panic THEN e
            ELSE IF match(toks, e.cur, {"RightParen"})
              THEN R(<<Node("GroupNT", <<>>, e.n, <<>>, <<>>)>>, e.err, e.cur + 1)
            ELSE ErrAtCurrent(toks, e.cur, "Expected closing parenthesis following token"))
  ELSE ErrAtCurrent(toks, cur, "Unexpected token")

\* the loop of finishCall: args is the chain from first, count the count so far
finishCallLoop(toks, cur, args, count) ==
  IF match(toks, cur, {"Comma"})
    THEN (LET arg == Call("expression", toks, cur + 1) IN
            IF arg.panic THEN arg
            ELSE IF arg.err # NoErr THEN R(<<>>, arg.err, arg.cur)
            ELSE finishCallLoop(toks, arg.cur, args \o arg.n, count + 1))
    ELSE IF count >= MaxArity
      THEN R(<<>>, "Maximum argument count (254) exceeded", cur)
    ELSE [n |-> args, err |-> NoErr, cur |-> cur, panic |-> FALSE, arity |-> count]

\* finishCall also yields the count, as field arity
finishCall(toks, cur) ==
  (LET first == Call("expression", toks, cur) IN
     IF first.panic THEN first
     ELSE IF first.err # NoErr THEN R(<<>>, first.err, first.cur)
     ELSE finishCallLoop(toks, first.cur, first.n, IF first.n # <<>> THEN 1 ELSE 0))

\* the loop of call: expr and err are call's own variables
callLoop(toks, cur, expr, err) ==
  IF match(toks, cur, {"LeftParen"})
    THEN (LET a == Call("finishCall", toks, cur + 1) IN
            IF a.panic THEN a
            ELSE IF a.err # NoErr THEN R(<<>>, a.err, a.cur)
            ELSE IF ~match(toks, a.cur, {"RightParen"})
              THEN R(<<>>, "Expected closing parenthesis after argument list", a.cur)
            ELSE callLoop(toks, a.cur + 1,
                   <<Node("CallNT", expr, a.n, <<>>, encodeLoxNumber(a.arity))>>, err))
    ELSE R(expr, err, cur)

call(toks, cur) ==
  (LET e == Call("primary", toks, cur) IN
     IF e.panic THEN e ELSE callLoop(toks, e.cur, e.n, e.err))

unary(toks, cur) ==
  IF match(toks, cur, {"Bang", "Minus"})
    THEN LET operator == previous(toks, cur + 1) IN
         (LET right == Call("unary", toks, cur + 1) IN
         IF right.panic THEN right
         ELSE R(<<Node("UnaryNT", <<>>, right.n, <<>>, toValue(operator))>>, right.err, right.cur))
    ELSE call(toks, cur)

\* the loop of logicOr: expr and err are logicOr's own variables
logicOrLoop(toks, cur, expr, err) ==
  IF match(toks, cur, {"Or"})
    THEN LET operator == previous(toks, cur + 1) IN
         (LET right == Call("logicAnd", toks, cur + 1) IN
         IF right.panic THEN right
         ELSE IF right.err # NoErr THEN R(expr, err, right.cur)   \* break
         ELSE logicOrLoop(toks, right.cur,
                <<Node("LogicOrNT", expr, right.n, <<>>, toValue(operator))>>, err))
    ELSE R(expr, err, cur)

logicOr(toks, cur) ==
  (LET l == Call("logicAnd", toks, cur) IN
     IF l.panic THEN l ELSE logicOrLoop(toks, l.cur, l.n, l.err))

\* the loop of logicAnd: expr and err are logicAnd's own variables
logicAndLoop(toks, cur, expr, err) ==
  IF match(toks, cur, {"And"})
    THEN LET operator == previous(toks, cur + 1) IN
         (LET right == Call("equality", toks, cur + 1) IN
         IF right.panic THEN right
         ELSE IF right.err # NoErr THEN R(expr, err, right.cur)   \* break
         ELSE logicAndLoop(toks, right.cur,
                <<Node("LogicAndNT", expr, right.n, <<>>, toValue(operator))>>, err))
    ELSE R(expr, err, cur)

logicAnd(toks, cur) ==
  (LET l == Call("equality", toks, cur) IN
     IF l.panic THEN l ELSE logicAndLoop(toks, l.cur, l.n, l.err))

\* the loop of equality: expr and err are equality's own variables
equalityLoop(toks, cur, expr, err) ==
  IF match(toks, cur, {"BangEqual", "EqualEqual"})
    THEN LET operator == previous(toks, cur + 1) IN
         (LET right == Call("comparison", toks, cur + 1) IN
         IF right.panic THEN right
         ELSE IF right.err # NoErr THEN R(expr, err, right.cur)   \* break
         ELSE equalityLoop(toks, right.cur,
                <<Node("EqualityNT", expr, right.n, <<>>, toValue(operator))>>, err))
    ELSE R(expr, err, cur)

equality(toks, cur) ==
  (LET l == Call("comparison", toks, cur) IN
     IF l.panic THEN l ELSE equalityLoop(toks, l.cur, l.n, l.err))

\* the loop of comparison: expr and err are comparison's own variables
comparisonLoop(toks, cur, expr, err) ==
  IF match(toks, cur, {"Greater", "GreaterEqual", "Less", "LessEqual"})
    THEN LET operator == previous(toks, cur + 1) IN
         (LET right == Call("term", toks, cur + 1) IN
         IF right.panic THEN right
         ELSE IF right.err # NoErr THEN R(expr, err, right.cur)   \* break
         ELSE comparisonLoop(toks, right.cur,
                <<Node("ComparisonNT", expr, right.n, <<>>, toValue(operator))>>, err))
    ELSE R(expr, err, cur)

comparison(toks, cur) ==
  (LET l == Call("term", toks, cur) IN
     IF l.panic THEN l ELSE comparisonLoop(toks, l.cur, l.n, l.err))

\* the loop of term with the right operand parsed as a term
termLoop_RightOperandTerm(toks, cur, expr, err) ==
  IF match(toks, cur, {"Minus", "Plus"})
    THEN LET operator == previous(toks, cur + 1) IN
         (LET right == Call("term", toks, cur + 1) IN
         IF right.panic THEN right
         ELSE IF right.err # NoErr THEN R(expr, err, right.cur)
         ELSE termLoop(toks, right.cur,
                <<Node("TermNT", expr, right.n, <<>>, toValue(operator))>>, err))
    ELSE R(expr, err, cur)

\* the loop of term: expr and err are term's own variables
termLoop(toks, cur, expr, err) ==
  IF match(toks, cur, {"Minus", "Plus"})
    THEN LET operator == previous(toks, cur + 1) IN
         (LET right == Call("factor", toks, cur + 1) IN
         IF right.panic THEN right
         ELSE IF right.err # NoErr THEN R(expr, err, right.cur)   \* break
         ELSE termLoop(toks, right.cur,
                <<Node("TermNT", expr, right.n, <<>>, toValue(operator))>>, err))
    ELSE R(expr, err, cur)

term(toks, cur) ==
  (LET l == Call("factor", toks, cur) IN
     IF l.panic THEN l ELSE termLoop(toks, l.cur, l.n, l.err))

\* the loop of factor: expr and err are factor's own variables
factorLoop(toks, cur, expr, err) ==
  IF match(toks, cur, {"Slash", "Star"})
    THEN LET operator == previous(toks, cur + 1) IN
         (LET right == Call("unary", toks, cur + 1) IN
         IF right.panic THEN right
         ELSE IF right.err # NoErr THEN R(expr, err, right.cur)   \* break
         ELSE factorLoop(toks, right.cur,
                <<Node("FactorNT", expr, right.n, <<>>, toValue(operator))>>, err))
    ELSE R(expr, err, cur)

factor(toks, cur) ==
  (LET l == Call("unary", toks, cur) IN
     IF l.panic THEN l ELSE factorLoop(toks, l.cur, l.n, l.err))

\* assignment with the value parsed by logicOr, not by assignment itself
assignment_ValueLogicOr(toks, cur) ==
  (LET e == Call("logicOr", toks, cur) IN
     IF e.panic THEN e
     ELSE IF match(toks, e.cur, {"Equal"})
       THEN LET operator == previous(toks, e.cur + 1) IN
            (LET right == Call("logicOr", toks, e.cur + 1) IN
            IF right.panic THEN right
            ELSE IF right.err # NoErr
              THEN ErrAtCurrent(toks, right.cur, "Invalid r-value for assignment")
            ELSE IF e.n = <<>> THEN PanicR(right.cur)
            ELSE IF e.n[1].Type = "IdentifierNT"
              THEN R(<<Node("AssignmentNT", e.n, right.n, <<>>, toValue(operator))>>,
                     NoErr, right.cur)
            ELSE R(e.n, e.err, right.cur))
     ELSE e)

assignment(toks, cur) ==
  (LET e == Call("logicOr", toks, cur) IN
     IF e.panic THEN e
     ELSE IF match(toks, e.cur, {"Equal"})
       THEN LET operator == previous(toks, e.cur + 1) IN
            (LET right == Call("assignment", toks, e.cur + 1) IN
            IF right.panic THEN right
            ELSE IF right.err # NoErr
              THEN ErrAtCurrent(toks, right.cur, "Invalid r-value for assignment")
            ELSE IF e.n = <<>> THEN PanicR(right.cur)     \* expr.Type with expr nil
            ELSE IF e.n[1].Type = "IdentifierNT"
              THEN R(<<Node("AssignmentNT", e.n, right.n, <<>>, toValue(operator))>>,
                     NoErr, right.cur)
            ELSE R(e.n, e.err, right.cur))
     ELSE e)

expression(toks, cur) == assignment(toks, cur)

printStmt(toks, cur) ==
  (LET e == Call("expression", toks, cur) IN
     IF e.panic THEN e
     ELSE IF match(toks, e.cur, {"Semicolon"})
       THEN R(<<Node("PrintStmtNT", <<>>, e.n, <<>>, <<>>)>>, e.err, e.cur + 1)
     ELSE ErrAtCurrent(toks, e.cur, "Expected semicolon after token"))

exprStmt(toks, cur) ==
  (LET e == Call("expression", toks, cur) IN
     IF e.panic THEN e
     ELSE IF match(toks, e.cur, {"Semicolon"})
       THEN R(<<Node("ExprStmtNT", <<>>, e.n, <<>>, <<>>)>>, e.err, e.cur + 1)
     ELSE ErrAtCurrent(toks, e.cur, "Expected semicolon after token"))


returnStmt(toks, cur) ==
  (LET e == Call("expression", toks, cur) IN
     IF e.panic THEN e
     ELSE IF e.err # NoErr THEN R(<<>>, e.err, e.cur)
     ELSE IF match(toks, e.cur, {"Semicolon"})
       THEN R(<<Node("ReturnStmtNT", <<>>, e.n, <<>>, <<>>)>>, NoErr, e.cur + 1)
     ELSE ErrAtCurrent(toks, e.cur, "Expected semicolon after return statement"))

varDecl(toks, cur) ==
  (LET ident == Call("primary", toks, cur) IN
     IF ident.panic THEN ident
     ELSE (LET e == IF match(toks, ident.cur, {"Equal"})
                 THEN Call("expression", toks, ident.cur + 1)
                 ELSE R(<<>>, ident.err, ident.cur) IN
             IF e.panic THEN e
             ELSE IF match(toks, e.cur, {"Semicolon"})
               THEN R(<<Node("VarDeclNT", ident.n, e.n, <<>>, <<>>)>>, e.err, e.cur + 1)
             ELSE ErrAtCurrent(toks, e.cur, "Expected semicolon after token")))

\* forStmt once init, cond, incr and body are parsed: the desugaring
forDesugar(init, cond, incr, body) ==
  LET bodyWithIncr == Node("BlockNT", <<>>, body \o incr, <<>>, <<>>)      \* body.Next = incr
      while == Node("WhileStmtNT",
                    IF cond = <<>>
                      THEN <<Node("BoolNT", <<>>, <<>>, <<>>, encodeBool(TRUE))>>
                      ELSE cond,
                    <<bodyWithIncr>>, <<>>, <<>>)
  IN Node("BlockNT", <<>>, init \o <<while>>, <<>>, <<>>)                  \* init.Next = while

forStmt(toks, cur) ==
  IF ~match(toks, cur, {"LeftParen"})
    THEN ErrAtCurrent(toks, cur, "Expected left parenthesis")
  ELSE (LET init == IF match(toks, cur + 1, {"Semicolon"}) THEN R(<<>>, NoErr, cur + 2)
            ELSE IF match(toks, cur + 1, {"Var"}) THEN Call("varDecl", toks, cur + 2)
            ELSE Call("exprStmt", toks, cur + 1) IN
          IF init.panic THEN init
          ELSE IF init.err # NoErr THEN R(<<>>, init.err, init.cur)
          ELSE (LET cond == Call("expression", toks, init.cur) IN
                  IF cond.panic THEN cond
                  ELSE IF cond.err # NoErr THEN R(<<>>, cond.err, cond.cur)
                  ELSE IF ~match(toks, cond.cur, {"Semicolon"})
                    THEN ErrAtCurrent(toks, cond.cur, "Expected semicolon in for statement")
                  ELSE (LET incr == Call("expression", toks, cond.cur + 1) IN
                          IF incr.panic THEN incr
                          ELSE IF incr.err # NoErr THEN R(<<>>, incr.err, incr.cur)
                          ELSE IF ~match(toks, incr.cur, {"RightParen"})
                            THEN ErrAtCurrent(toks, incr.cur,
                                   "Expected closing parenthesis in for statement")
                          ELSE (LET body == Call("statement", toks, incr.cur + 1) IN
                                  IF body.panic THEN body
                                  ELSE IF body.err # NoErr THEN R(<<>>, body.err, body.cur)
                                  ELSE R(<<forDesugar(init.n, cond.n, incr.n, body.n)>>,
                                         NoErr, body.cur)))))

whileStmt(toks, cur) ==
  IF match(toks, cur, {"LeftParen"})
    THEN (LET cond == Call("expression", toks, cur + 1) IN
            IF cond.panic THEN cond
            ELSE IF cond.err # NoErr THEN R(<<>>, cond.err, cond.cur)
            ELSE (LET body == IF match(toks, cond.cur, {"RightParen"})
                        THEN Call("statement", toks, cond.cur + 1)
                        ELSE R(<<>>, NoErr, cond.cur) IN
                    IF body.panic THEN body
                    ELSE IF body.err # NoErr THEN R(<<>>, body.err, body.cur)
                    ELSE IF cond.n # <<>> /\ body.n # <<>>
                      THEN R(<<Node("WhileStmtNT", cond.n, body.n, <<>>, <<>>)>>, NoErr, body.cur)
                    ELSE ErrAtCurrent(toks, body.cur, "Malformed while statement")))
    ELSE ErrAtCurrent(toks, cur, "Malformed while statement")

ifStmt(toks, cur) ==
  IF match(toks, cur, {"LeftParen"})
    THEN (LET cond == Call("expression", toks, cur + 1) IN
            IF cond.panic THEN cond
            ELSE IF cond.err # NoErr THEN R(<<>>, cond.err, cond.cur)
            ELSE (LET thenBranch == IF match(toks, cond.cur, {"RightParen"})
                        THEN Call("statement", toks, cond.cur + 1)
                        ELSE R(<<>>, NoErr, cond.cur) IN
                    IF thenBranch.panic THEN thenBranch
                    ELSE IF thenBranch.err # NoErr THEN R(<<>>, thenBranch.err, thenBranch.cur)
                    ELSE (LET elseBranch == IF match(toks, thenBranch.cur, {"Else"})
                                THEN Call("statement", toks, thenBranch.cur + 1)
                                ELSE R(<<>>, NoErr, thenBranch.cur) IN
                            IF elseBranch.panic THEN elseBranch
                            ELSE IF elseBranch.err # NoErr
                              THEN R(<<>>, elseBranch.err, elseBranch.cur)
                            ELSE IF cond.n # <<>> /\ thenBranch.n # <<>>
                              THEN R(<<Node("IfStmtNT", cond.n, thenBranch.n, elseBranch.n, <<>>)>>,
                                     NoErr, elseBranch.cur)
                            ELSE ErrAtCurrent(toks, elseBranch.cur, "Malformed if statement"))))
    ELSE ErrAtCurrent(toks, cur, "Expected parentheses after if token")

\* the loop of block: stmts is the chain from blk.Right
blockLoop(toks, cur, stmts) ==
  IF match(toks, cur, {"RightBrace"})
    THEN R(<<Node("BlockNT", <<>>, stmts, <<>>, <<>>)>>, NoErr, cur + 1)
    ELSE (LET decl == Call("declaration", toks, cur) IN
            IF decl.panic THEN decl
            ELSE IF decl.err # NoErr THEN R(<<>>, decl.err, decl.cur)
            ELSE blockLoop(toks, decl.cur, stmts \o decl.n))

block(toks, cur) == blockLoop(toks, cur, <<>>)

statement(toks, cur) ==
  CASE match(toks, cur, {"Print"}) -> printStmt(toks, cur + 1)
    [] match(toks, cur, {"If"}) -> ifStmt(toks, cur + 1)
    [] match(toks, cur, {"While"}) -> whileStmt(toks, cur + 1)
    [] match(toks, cur, {"For"}) -> forStmt(toks, cur + 1)
    [] match(toks, cur, {"LeftBrace"}) -> block(toks, cur + 1)
    [] match(toks, cur, {"Return"}) -> returnStmt(toks, cur + 1)
    [] OTHER -> exprStmt(toks, cur)

\* the loop of parameters: params is the chain from first
parametersLoop(toks, cur, params) ==
  IF match(toks, cur, {"Comma"})
    THEN IF match(toks, cur + 1, {"Identifier"})
           THEN parametersLoop(toks, cur + 2,
                  Append(params, Node("ParamNT", <<>>, <<>>, <<>>,
                                      encodeString(previous(toks, cur + 2).Lexeme))))
           ELSE R(params, NoErr, cur + 1)
    ELSE R(params, NoErr, cur)

parameters(toks, cur) ==
  IF match(toks, cur, {"Identifier"})
    THEN parametersLoop(toks, cur + 1,
           <<Node("ParamNT", <<>>, <<>>, <<>>, encodeString(previous(toks, cur + 1).Lexeme))>>)
    ELSE R(<<>>, NoErr, cur)

function(toks, cur) ==
  IF ~match(toks, cur, {"Identifier"})
    THEN R(<<>>, "Expected function name after token", cur)
  ELSE LET name == previous(toks, cur + 1) IN
    IF ~match(toks, cur + 1, {"LeftParen"})
      THEN R(<<>>, "Expected argument list after token", cur + 1)
    ELSE (LET param == Call("parameters", toks, cur + 2) IN
         LET arity == Len(param.n) IN
         IF arity >= MaxArity
           THEN R(<<>>, "Maximum argument count (254) exceeded", param.cur)
         ELSE IF ~match(toks, param.cur, {"RightParen"})
           THEN R(<<>>, "Expected closing parenthesis after argument list", param.cur)
         ELSE IF ~match(toks, param.cur + 1, {"LeftBrace"})
           THEN R(<<>>, "Expected function body", param.cur + 1)
         ELSE (LET body == Call("block", toks, param.cur + 2) IN
                 IF body.panic THEN body
                 ELSE IF body.err # NoErr THEN R(<<>>, body.err, body.cur)
                 ELSE R(<<Node("FunDeclNT",
                               <<Node("IdentifierNT", <<>>, <<>>, <<>>, encodeString(name.Lexeme))>>,
                               param.n, body.n, encodeLoxNumber(arity))>>,
                        NoErr, body.cur)))

funDecl(toks, cur) == function(toks, cur)

declaration(toks, cur) ==
  CASE match(toks, cur, {"Var"}) -> varDecl(toks, cur + 1)
    [] match(toks, cur, {"Fun"}) -> funDecl(toks, cur + 1)
    [] OTHER -> statement(toks, cur)

\* the loop of program: stmts is the chain from prgm.Right, err the error of
\* the first declaration.  stmt.Next = decl extends that chain when the first
\* declaration gave a node (linked); when it gave nil, prgm.Right stays nil.
programLoop(toks, cur, stmts, linked, err) ==
  IF cur < Len(toks) /\ ~match(toks, cur, {"EOF"})
    THEN (LET decl == Call("declaration", toks, cur) IN
            IF decl.panic THEN decl
            ELSE IF decl.err # NoErr
              THEN R(<<Node("ProgramNT", <<>>, stmts, <<>>, <<>>)>>, decl.err, decl.cur)
            ELSE programLoop(toks, decl.cur, IF linked THEN stmts \o decl.n ELSE stmts,
                             linked, err))
    ELSE R(<<Node("ProgramNT", <<>>, stmts, <<>>, <<>>)>>, err,
           IF cur < Len(toks) THEN cur + 1 ELSE cur)

program(toks, cur) ==
  (LET first == Call("declaration", toks, cur) IN
     IF first.panic THEN first
     ELSE programLoop(toks, first.cur, first.n, first.n # <<>>, first.err))

\* The parsing functions are function values held in variables of Parse, each
\* assigned once; a call applies the value the variable f holds.
Call(f, toks, cur) ==
  CASE f = "program" -> program(toks, cur)
    [] f = "declaration" -> declaration(toks, cur)
    [] f = "funDecl" -> funDecl(toks, cur)
    [] f = "varDecl" -> varDecl(toks, cur)
    [] f = "statement" -> statement(toks, cur)
    [] f = "function" -> function(toks, cur)
    [] f = "parameters" -> parameters(toks, cur)
    [] f = "block" -> block(toks, cur)
    [] f = "returnStmt" -> returnStmt(toks, cur)
    [] f = "forStmt" -> forStmt(toks, cur)
    [] f = "whileStmt" -> whileStmt(toks, cur)
    [] f = "ifStmt" -> ifStmt(toks, cur)
    [] f = "exprStmt" -> exprStmt(toks, cur)
    [] f = "printStmt" -> printStmt(toks, cur)
    [] f = "expression" -> expression(toks, cur)
    [] f = "assignment" -> assignment(toks, cur)
    [] f = "logicOr" -> logicOr(toks, cur)
    [] f = "logicAnd" -> logicAnd(toks, cur)
    [] f = "equality" -> equality(toks, cur)
    [] f = "comparison" -> comparison(toks, cur)
    [] f = "term" -> term(toks, cur)
    [] f = "factor" -> factor(toks, cur)
    [] f = "unary" -> unary(toks, cur)
    [] f = "call" -> call(toks, cur)
    [] f = "primary" -> primary(toks, cur)
    [] f = "finishCall" -> finishCall(toks, cur)

Parse(toks) == Call("program", toks, 0)


(***************************************************************************)
(* Node.ToString and Node.truthy (stmt.go).                                *)
(***************************************************************************)
RECURSIVE Digits(_)
Digits(n) == IF n < 10 THEN <<Ord("0") + n>> ELSE Append(Digits(n \div 10), Ord("0") + (n % 10))

\* fmt.Sprintf("%f", x) for an integer x
Sprintf_f(x) ==
  (IF x < 0 THEN <<Ord("-")>> ELSE <<>>) \o Digits(Abs(x)) \o Bytes(<<".", "0", "0", "0", "0", "0", "0">>)

\* the loop of trimNumber, i counted from 0 as in the program
RECURSIVE trimNumberLoop(_, _)
trimNumberLoop(s, i) ==
  IF i > 0
    THEN IF s[i + 1] # Ord("0")
           THEN IF s[i + 1] = Ord(".") THEN SubSeq(s, 1, i) ELSE SubSeq(s, 1, i + 1)
           ELSE trimNumberLoop(s, i - 1)
    ELSE s

trimNumber(s) == trimNumberLoop(s, Len(s) - 1)

\* n.ToString() for a pointer n (the TLC module already defines ToString)
Node_ToString(n) ==
  IF n = <<>> THEN <<>>
  ELSE LET t == n[1].Type IN
    CASE t = "ProgramNT" -> Bytes(<<"<", "p", "r", "o", "g", "r", "a", "m", ">">>)
      [] t = "VarDeclNT" -> Bytes(<<"<", "v", "a", "r", ">">>)            \* "<variable declaration>"
      [] t = "FunDeclNT" -> Bytes(<<"<", "f", "u", "n", ">">>)            \* "<function declaration ..>"
      [] t = "FunctionNT" -> Bytes(<<"<", "f", "u", "n", "c", "t", "i", "o", "n", " ",
                                     "o", "b", "j", "e", "c", "t", ">">>)
      [] t = "BlockNT" -> Bytes(<<"<", "b", "l", "o", "c", "k", ">">>)
      [] t = "ReturnStmtNT" -> Bytes(<<"<", "r", "e", "t", "u", "r", "n", ">">>)
      [] t = "WhileStmtNT" -> Bytes(<<"<", "w", "h", "i", "l", "e", ">">>)
      [] t = "IfStmtNT" -> Bytes(<<"<", "i", "f", ">">>)
      [] t = "AssignmentNT" -> Bytes(<<"<", "a", "s", "s", "i", "g", "n", "m", "e", "n", "t", ">">>)
      [] t = "LogicOrNT" -> Bytes(<<"<", "o", "r", ">">>)
      [] t = "LogicAndNT" -> Bytes(<<"<", "a", "n", "d", ">">>)
      [] t = "CallNT" -> Bytes(<<"<", "c", "a", "l", "l", ">">>)          \* "<\"name\" call>"
      [] t = "CallableNT" -> Bytes(<<"<", "c", "a", "l", "l", "a", "b", "l", "e", ">">>)
      [] t = "ExprStmtNT" -> Bytes(<<"<", "e", "x", "p", "r", ">">>)      \* "<expression statement>"
      [] t = "PrintStmtNT" -> Bytes(<<"p", "r", "i", "n", "t">>)
      [] t = "GroupNT" -> Bytes(<<"<", "g", "r", "o", "u", "p", ">">>)
      [] t \in {"EqualityNT", "ComparisonNT", "TermNT", "FactorNT", "UnaryNT",
                "IdentifierNT", "ParamNT"} -> n[1].Data
      [] t = "NumberNT" -> trimNumber(Sprintf_f(decodeLoxNumber(n[1].Data)))
      [] t = "BoolNT" -> IF n[1].Data[1] = 1 THEN Bytes(<<"t", "r", "u", "e">>)
                         ELSE Bytes(<<"f", "a", "l", "s", "e">>)
      [] t = "NilNT" -> Bytes(<<"n", "i", "l">>)
      [] OTHER -> n[1].Data                                               \* StringNT

\* n.truthy() for a non-nil pointer n
truthy(n) ==
  IF n[1].Type = "BoolNT" /\ n[1].Data[1] = 0 THEN FALSE
  ELSE IF n[1].Type = "NilNT" THEN FALSE
  ELSE TRUE

\* the loop of compareValues
RECURSIVE compareValuesLoop(_, _, _)
compareValuesLoop(a, b, i) ==
  IF i > Len(a) THEN TRUE
  ELSE IF a[i] # b[i] THEN FALSE
  ELSE compareValuesLoop(a, b, i + 1)

\* payloads compared by length alone
compareValues_LengthOnly(a, b) == Len(a) = Len(b)

compareValues(a, b) ==
  IF Len(a) # Len(b) THEN FALSE ELSE compareValuesLoop(a, b, 1)

(***************************************************************************)
(* The evaluator (interpret.go and the interpretXxx methods).  An          *)
(* evaluation threads a record st: the heap envs of environments (an       *)
(* Environment pointer is an index into it, nil is 0), the log, halt       *)
(* ("" while running; "panic" after a Go run-time fault; "diverge" when    *)
(* the fuel of loop iterations and calls is used up; "unmodelled" when a   *)
(* number leaves the modelled integers) and the remaining fuel.            *)
(* A value is a pointer to a node; its Next is never read, and the model   *)
(* keeps the node alone.                                                   *)
(***************************************************************************)
MaxFuel == 6

Event(kind, text, msg) == [kind |-> kind, text |-> text, msg |-> msg]

EV(v, st) == [v |-> v, st |-> st]
SR(next, st) == [next |-> next, st |-> st]
Halt(st, why) == [st EXCEPT !.halt = why]
Emit(st, e) == [st EXCEPT !.log = Append(@, e)]

\* fmt.Printf("\nRuntime error: ...")
RuntimeError(st, msg) == Emit(st, Event("error", <<>>, msg))

\* a new environment enclosed by the global one, whatever the current one is
NewEnv_UnderGlobal(st, enclosing) ==
  [st EXCEPT !.envs = Append(@, [Enclosing |-> 1, Values |-> <<>>])]

\* &Environment{Enclosing: enclosing, Values: make(map[string]*Node)}
NewEnv(st, enclosing) ==
  [st EXCEPT !.envs = Append(@, [Enclosing |-> enclosing, Values |-> <<>>])]

Defines(st, env, name) ==
  \E k \in 1..Len(st.envs[env].Values) : st.envs[env].Values[k][1] = name

ValueOf(st, env, name) ==
  LET vs == st.envs[env].Values
  IN vs[CHOOSE k \in 1..Len(vs) : vs[k][1] = name][2]

\* env.Values[name] = val
SetValue(st, env, name, val) ==
  LET vs == st.envs[env].Values
      nvs == IF \E k \in 1..Len(vs) : vs[k][1] = name
               THEN [k \in 1..Len(vs) |-> IF vs[k][1] = name THEN <<name, val>> ELSE vs[k]]
               ELSE Append(vs, <<name, val>>)
  IN Emit([st EXCEPT !.envs[env].Values = nvs], Event("bind", name, ""))

\* the look-up that stops at the current scope
FindScope_CurrentOnly(st, env, name) == IF Defines(st, env, name) THEN env ELSE 0

\* the innermost scope from env outwards that defines name, 0 when none does
RECURSIVE FindScope(_, _, _)
FindScope(st, env, name) ==
  IF env = 0 THEN 0
  ELSE IF Defines(st, env, name) THEN env
  ELSE FindScope(st, st.envs[env].Enclosing, name)

BoolNode(b) == <<Node("BoolNT", <<>>, <<>>, <<>>, encodeBool(b))>>

InDomain(n) == Abs(n) < 16777216

NumberResult(st, n) ==
  IF InDomain(n) THEN EV(<<Node("NumberNT", <<>>, <<>>, <<>>, encodeLoxNumber(n))>>, st)
  ELSE EV(<<>>, Halt(st, "unmodelled"))

RECURSIVE interpretStmt(_, _, _), interpretExpr(_, _, _), interpretVarDecl(_, _, _),
          interpretFunDecl(_, _, _), interpretBlock(_, _, _), interpretBlockLoop(_, _, _, _),
          interpretIfStmt(_, _, _), interpretWhileStmt(_, _, _),
          interpretWhileLoop(_, _, _), interpretAssignment(_, _, _),
          interpretCall(_, _, _), interpretCallArgs(_, _, _, _, _, _),
          interpretReturnStmt(_, _, _), interpretOr(_, _, _), interpretAnd(_, _, _),
          interpretEquality(_, _, _), interpretComparison(_, _, _),
          interpretTerm(_, _, _), interpretFactor(_, _, _), interpretUnary(_, _, _),
          interpretIdentifier(_, _, _)

interpretIdentifier(env, expr, st) ==
  LET name == Node_ToString(expr)
      scope == FindScope(st, env, name)
  IN IF scope = 0 \/ ValueOf(st, scope, name) = <<>>
       THEN EV(<<>>, RuntimeError(st, "undefined variable"))
       ELSE EV(ValueOf(st, scope, name), st)

\* or evaluated as and is
interpretOr_AsAnd(env, expr, st) == interpretAnd(env, expr, st)

interpretOr(env, expr, st) ==
  With(interpretExpr(env, expr[1].Left, st), LAMBDA left :
     IF left.st.halt # "" THEN left
     ELSE IF left.v = <<>> THEN EV(<<>>, Halt(left.st, "panic"))     \* left.truthy() on nil
     ELSE IF truthy(left.v) THEN left
     ELSE With(interpretExpr(env, expr[1].Right, left.st), LAMBDA right :
             IF right.st.halt # "" THEN right
             ELSE IF right.v = <<>> THEN EV(<<>>, Halt(right.st, "panic"))
             ELSE IF truthy(right.v) THEN right
             ELSE EV(BoolNode(FALSE), right.st)))

interpretAnd(env, expr, st) ==
  With(interpretExpr(env, expr[1].Left, st), LAMBDA left :
     IF left.st.halt # "" THEN left
     ELSE IF left.v = <<>> THEN EV(<<>>, Halt(left.st, "panic"))
     ELSE IF truthy(left.v)
       THEN With(interpretExpr(env, expr[1].Right, left.st), LAMBDA right :
               IF right.st.halt # "" THEN right
               ELSE IF right.v = <<>> THEN EV(<<>>, Halt(right.st, "panic"))
               ELSE EV(BoolNode(truthy(right.v)), right.st))
     ELSE EV(BoolNode(FALSE), left.st))

interpretEquality(env, expr, st) ==
  With(interpretExpr(env, expr[1].Left, st), LAMBDA left :
  With(interpretExpr(env, expr[1].Right, left.st), LAMBDA right :
  LET op == Node_ToString(expr) IN
  IF left.st.halt # "" THEN left
  ELSE IF right.st.halt # "" THEN right
  ELSE IF op = Bytes(<<"=", "=">>)
    THEN IF left.v = <<>> \/ right.v = <<>> THEN EV(<<>>, Halt(right.st, "panic"))
         ELSE IF left.v[1].Type # right.v[1].Type THEN EV(BoolNode(FALSE), right.st)
         ELSE EV(BoolNode(compareValues(left.v[1].Data, right.v[1].Data)), right.st)
  ELSE IF op = Bytes(<<"!", "=">>)
    THEN IF left.v = <<>> \/ right.v = <<>> THEN EV(<<>>, Halt(right.st, "panic"))
         ELSE IF left.v[1].Type # right.v[1].Type THEN EV(BoolNode(TRUE), right.st)
         ELSE EV(BoolNode(~compareValues(left.v[1].Data, right.v[1].Data)), right.st)
  ELSE EV(<<>>, RuntimeError(right.st, "expected equality expression"))))

\* left.Type != NumberNT || right.Type != NumberNT, with Go's short circuit:
\* "panic" when a nil operand is dereferenced, else whether the test holds
NotBothNumbers(left, right) ==
  IF left = <<>> THEN "panic"
  ELSE IF left[1].Type # "NumberNT" THEN "true"
  ELSE IF right = <<>> THEN "panic"
  ELSE IF right[1].Type # "NumberNT" THEN "true"
  ELSE "false"

interpretComparison(env, expr, st) ==
  With(interpretExpr(env, expr[1].Left, st), LAMBDA left :
  With(interpretExpr(env, expr[1].Right, left.st), LAMBDA right :
  LET op == Node_ToString(expr) IN
  LET test == NotBothNumbers(left.v, right.v) IN
  IF left.st.halt # "" THEN left
  ELSE IF right.st.halt # "" THEN right
  ELSE IF test = "panic" THEN EV(<<>>, Halt(right.st, "panic"))
  ELSE IF test = "true" THEN EV(<<>>, RuntimeError(right.st, "cannot compare"))
  ELSE LET numL == decodeLoxNumber(left.v[1].Data)
           numR == decodeLoxNumber(right.v[1].Data)
       IN IF op = Bytes(<<"<">>) THEN EV(BoolNode(numL < numR), right.st)
          ELSE IF op = Bytes(<<"<", "=">>) THEN EV(BoolNode(numL <= numR), right.st)
          ELSE IF op = Bytes(<<">">>) THEN EV(BoolNode(numL > numR), right.st)
          ELSE IF op = Bytes(<<">", "=">>) THEN EV(BoolNode(numL >= numR), right.st)
          ELSE EV(<<>>, RuntimeError(right.st, "expected comparison expression"))))

interpretTerm(env, expr, st) ==
  LET op == Node_ToString(expr) IN
  IF op = Bytes(<<"+">>)
    THEN With(interpretExpr(env, expr[1].Left, st), LAMBDA left :
         With(interpretExpr(env, expr[1].Right, left.st), LAMBDA right :
         IF left.st.halt # "" THEN left
         ELSE IF right.st.halt # "" THEN right
         ELSE IF left.v = <<>> THEN EV(<<>>, Halt(right.st, "panic"))
         ELSE IF left.v[1].Type = "NumberNT"
           THEN IF right.v = <<>> THEN EV(<<>>, Halt(right.st, "panic"))
                ELSE IF right.v[1].Type = "NumberNT"
                  THEN NumberResult(right.st, decodeLoxNumber(left.v[1].Data)
                                              + decodeLoxNumber(right.v[1].Data))
                ELSE EV(<<>>, RuntimeError(right.st, "cannot add"))
         ELSE IF left.v[1].Type = "StringNT"
           THEN IF right.v = <<>> THEN EV(<<>>, Halt(right.st, "panic"))
                ELSE IF right.v[1].Type = "StringNT"
                  THEN EV(<<Node("StringNT", <<>>, <<>>, <<>>,
                                 left.v[1].Data \o right.v[1].Data)>>, right.st)
                ELSE EV(<<>>, RuntimeError(right.st, "cannot add"))
         ELSE EV(<<>>, RuntimeError(right.st, "cannot add"))))
  ELSE IF op = Bytes(<<"-">>)
    THEN With(interpretExpr(env, expr[1].Left, st), LAMBDA left :
         With(interpretExpr(env, expr[1].Right, left.st), LAMBDA right :
         LET test == NotBothNumbers(left.v, right.v) IN
         IF left.st.halt # "" THEN left
         ELSE IF right.st.halt # "" THEN right
         ELSE IF test = "panic" THEN EV(<<>>, Halt(right.st, "panic"))
         ELSE IF test = "true" THEN EV(<<>>, RuntimeError(right.st, "cannot subtract"))
         ELSE NumberResult(right.st, decodeLoxNumber(left.v[1].Data)
                                     - decodeLoxNumber(right.v[1].Data))))
  ELSE EV(<<>>, RuntimeError(st, "expected addition/subtraction expression"))

interpretFactor(env, expr, st) ==
  LET op == Node_ToString(expr) IN
  IF op = Bytes(<<"*">>) \/ op = Bytes(<<"/">>)
    THEN With(interpretExpr(env, expr[1].Left, st), LAMBDA left :
         With(interpretExpr(env, expr[1].Right, left.st), LAMBDA right :
         LET test == NotBothNumbers(left.v, right.v) IN
         IF left.st.halt # "" THEN left
         ELSE IF right.st.halt # "" THEN right
         ELSE IF test = "panic" THEN EV(<<>>, Halt(right.st, "panic"))
         ELSE IF test = "true" THEN EV(<<>>, RuntimeError(right.st, "cannot multiply"))
         ELSE LET numL == decodeLoxNumber(left.v[1].Data)
                  numR == decodeLoxNumber(right.v[1].Data)
              IN IF op = Bytes(<<"*">>) THEN NumberResult(right.st, numL * numR)
                 ELSE IF numR # 0 /\ numL % numR = 0
                   THEN NumberResult(right.st, numL \div numR)
                 ELSE EV(<<>>, Halt(right.st, "unmodelled"))))   \* a fraction, an infinity or NaN
  ELSE EV(<<>>, RuntimeError(st, "expected multiplication/division expression"))

interpretUnary(env, expr, st) ==
  LET op == Node_ToString(expr) IN
  IF op = Bytes(<<"!">>)
    THEN With(interpretExpr(env, expr[1].Right, st), LAMBDA right :
            IF right.st.halt # "" THEN right
            ELSE IF right.v = <<>> THEN EV(<<>>, Halt(right.st, "panic"))
            ELSE EV(BoolNode(~truthy(right.v)), right.st))
  ELSE IF op = Bytes(<<"-">>)
    THEN With(interpretExpr(env, expr[1].Right, st), LAMBDA right :
            IF right.st.halt # "" THEN right
            ELSE IF expr[1].Type # "NumberNT"
              THEN EV(<<>>, RuntimeError(right.st, "operator - undefined"))
            ELSE IF right.v = <<>> THEN EV(<<>>, Halt(right.st, "panic"))
            ELSE EV(<<Node("NumberNT", <<>>, <<>>, <<>>,
                           [right.v[1].Data EXCEPT ![1] = (@ + 128) % 256])>>, right.st))
  ELSE EV(<<>>, RuntimeError(st, "expected unary expression"))

interpretExpr(env, expr, st) ==
  IF st.halt # "" THEN EV(<<>>, st)
  ELSE IF expr = <<>> THEN EV(<<>>, Halt(st, "panic"))               \* expr.Type on nil
  ELSE LET t == expr[1].Type IN
    CASE t = "CallNT" ->
           With(interpretCall(env, expr, st), LAMBDA r :
              IF r.st.halt # "" THEN EV(<<>>, r.st)
              ELSE IF r.next = <<>> THEN EV(<<>>, Halt(r.st, "panic"))   \* .Right on nil
              ELSE EV(r.next[1].Right, r.st))
      [] t = "LogicOrNT" -> interpretOr(env, expr, st)
      [] t = "LogicAndNT" -> interpretAnd(env, expr, st)
      [] t = "EqualityNT" -> interpretEquality(env, expr, st)
      [] t = "ComparisonNT" -> interpretComparison(env, expr, st)
      [] t = "TermNT" -> interpretTerm(env, expr, st)
      [] t = "FactorNT" -> interpretFactor(env, expr, st)
      [] t = "UnaryNT" -> interpretUnary(env, expr, st)
      [] t \in {"IdentifierNT", "ParamNT"} -> interpretIdentifier(env, expr, st)
      [] t \in {"NumberNT", "StringNT", "BoolNT", "NilNT", "FunctionNT"} -> EV(<<expr[1]>>, st)
      [] OTHER -> EV(<<Node("NilNT", <<>>, <<>>, <<>>, <<>>)>>, st)

\* the initializer evaluated before the name is looked up
interpretVarDecl_EvalFirst(env, stm, st) ==
  LET name == Node_ToString(stm[1].Left) IN
  With(interpretExpr(env, stm[1].Right, st), LAMBDA val :
     IF val.st.halt # "" THEN SR(<<>>, val.st)
     ELSE IF Defines(val.st, env, name)
       THEN SR(<<>>, RuntimeError(val.st, "redeclaration"))
     ELSE SR(Tail(stm), SetValue(val.st, env, name, val.v)))

interpretVarDecl(env, stm, st) ==
  LET name == Node_ToString(stm[1].Left) IN
  IF Defines(st, env, name)
    THEN SR(<<>>, RuntimeError(st, "redeclaration"))
    ELSE With(interpretExpr(env, stm[1].Right, st), LAMBDA val :
            IF val.st.halt # "" THEN SR(<<>>, val.st)
            ELSE SR(Tail(stm), SetValue(val.st, env, name, val.v)))

interpretFunDecl(env, stm, st) ==
  LET name == Node_ToString(stm[1].Left) IN
  IF Defines(st, env, name)
    THEN SR(<<>>, RuntimeError(st, "redeclaration"))
    ELSE SR(Tail(stm), SetValue(st, env, name,
                          <<Node("FunctionNT", stm[1].Right, stm[1].Third, <<>>, stm[1].Data)>>))

\* the loop of interpretBlock: next is the statement at hand, stmt the block
interpretBlockLoop(scope, next, stm, st) ==
  CASE st.halt # "" -> SR(<<>>, st)
    [] st.halt = "" /\ next = <<>> -> SR(Tail(stm), st)
    [] st.halt = "" /\ next # <<>> /\ next[1].Type = "ReturnStmtNT" ->
         With(interpretExpr(scope, next[1].Right, st), LAMBDA val :
            SR(<<Node("ReturnStmtNT", <<>>, val.v, <<>>, <<>>)>> \o Tail(stm), val.st))
    [] OTHER ->
         With(interpretStmt(scope, next, st), LAMBDA r :
            interpretBlockLoop(scope, r.next, stm, r.st))

\* a block run in the environment it is met in
interpretBlock_NoScope(env, stm, st) == interpretBlockLoop(env, stm[1].Right, stm, st)

interpretBlock(env, stm, st) ==
  LET st1 == NewEnv(st, env)
  IN interpretBlockLoop(Len(st1.envs), stm[1].Right, stm, st1)

\* stmt.Right.Next = stmt.Next; return stmt.Right (and the same for Third):
\* the branch, followed by what follows the if statement
interpretIfStmt(env, stm, st) ==
  With(interpretExpr(env, stm[1].Left, st), LAMBDA cond :
     IF cond.st.halt # "" THEN SR(<<>>, cond.st)
     ELSE IF cond.v = <<>> THEN SR(<<>>, Halt(cond.st, "panic"))       \* cond.truthy() on nil
     ELSE IF truthy(cond.v)
       THEN IF stm[1].Right = <<>> THEN SR(<<>>, Halt(cond.st, "panic"))
            ELSE SR(<<stm[1].Right[1]>> \o Tail(stm), cond.st)
     ELSE IF stm[1].Third # <<>> THEN SR(<<stm[1].Third[1]>> \o Tail(stm), cond.st)
     ELSE SR(Tail(stm), cond.st))

\* the loop of interpretWhileStmt, one iteration per unit of fuel
interpretWhileLoop(scope, stm, st) ==
  IF st.halt # "" THEN SR(<<>>, st)
  ELSE With(interpretExpr(scope, stm[1].Left, st), LAMBDA cond :
          CASE cond.st.halt # "" -> SR(<<>>, cond.st)
            [] cond.st.halt = "" /\ cond.v = <<>> -> SR(<<>>, Halt(cond.st, "panic"))
            [] cond.st.halt = "" /\ cond.v # <<>> /\ ~truthy(cond.v) -> SR(Tail(stm), cond.st)
            [] cond.st.halt = "" /\ cond.v # <<>> /\ truthy(cond.v) /\ cond.st.fuel = 0 ->
                 SR(<<>>, Halt(cond.st, "diverge"))
            [] OTHER ->
                 With(interpretStmt(scope, stm[1].Right,
                                    [cond.st EXCEPT !.fuel = @ - 1]), LAMBDA res :
                    CASE res.st.halt # "" -> res
                      [] res.st.halt = "" /\ res.next # <<>>
                           /\ res.next[1].Type = "ReturnStmtNT" ->
                           With(interpretExpr(scope, res.next[1].Right, res.st), LAMBDA val :
                              SR(<<Node("ReturnStmtNT", <<>>, val.v, <<>>, <<>>)>> \o Tail(stm),
                                 val.st))
                      [] OTHER -> interpretWhileLoop(scope, stm, res.st)))

interpretWhileStmt(env, stm, st) ==
  LET st1 == NewEnv(st, env)
  IN interpretWhileLoop(Len(st1.envs), stm, st1)

interpretAssignment(env, stm, st) ==
  LET name == Node_ToString(stm[1].Left) IN
  With(interpretExpr(env, stm[1].Right, st), LAMBDA val :
  LET scope == FindScope(val.st, env, name) IN
  IF val.st.halt # "" THEN SR(<<>>, val.st)
  ELSE IF scope # 0 THEN SR(Tail(stm), SetValue(val.st, scope, name, val.v))
  ELSE SR(<<>>, RuntimeError(val.st, "undeclared variable")))

\* the argument loop of interpretCall; the result's ok tells whether it ran
\* to its end, or left the call with an error
interpretCallArgs(funcEnv, fun, arg, param, count, st) ==
  IF st.halt # "" THEN [ok |-> FALSE, st |-> st]
  ELSE IF arg = <<>> /\ param = <<>> THEN [ok |-> TRUE, st |-> st]
  ELSE IF arg = <<>> \/ param = <<>>
    THEN IF Len(fun[1].Data) < 4
           THEN [ok |-> FALSE, st |-> Halt(st, "panic")]         \* decodeLoxNumber(fun.Data)
           ELSE [ok |-> FALSE,
                 st |-> RuntimeError(st, IF arg = <<>> THEN "too few parameters"
                                         ELSE "too many parameters")]
  ELSE With(interpretExpr(funcEnv, arg, st), LAMBDA val :
          IF val.st.halt # "" THEN [ok |-> FALSE, st |-> val.st]
          ELSE interpretCallArgs(funcEnv, fun, Tail(arg), Tail(param), count + 1,
                                 SetValue(val.st, funcEnv, Node_ToString(param), val.v)))

interpretCall(env, stm, st) ==
  LET callee == stm[1].Left
      isIdent == callee # <<>> /\ callee[1].Type = "IdentifierNT"
      name == Node_ToString(callee)
      scope == FindScope(st, env, name)
      found == isIdent /\ scope # 0 /\ ValueOf(st, scope, name) # <<>>
  IN CASE callee = <<>> -> SR(<<>>, Halt(st, "panic"))
       [] callee # <<>> /\ ~isIdent ->
            SR(<<>>, RuntimeError(st, "expected function identifier"))
       [] isIdent /\ ~found -> SR(<<>>, RuntimeError(st, "undefined function"))
       [] found /\ st.fuel = 0 -> SR(<<>>, Halt(st, "diverge"))
       [] OTHER ->
            LET fun == ValueOf(st, scope, name) IN
            LET st1 == NewEnv([st EXCEPT !.fuel = @ - 1], env) IN
            LET funcEnv == Len(st1.envs) IN
            With(interpretCallArgs(funcEnv, fun, stm[1].Right, fun[1].Left, 0, st1), LAMBDA args :
            IF ~args.ok THEN SR(<<>>, args.st)
            ELSE With(interpretStmt(funcEnv, fun[1].Right, args.st), LAMBDA result :
                    CASE result.st.halt # "" -> result
                      [] result.st.halt = "" /\ result.next = <<>> ->
                           SR(<<>>, Halt(result.st, "panic"))         \* result.Type on nil
                      [] result.st.halt = "" /\ result.next # <<>>
                           /\ result.next[1].Type = "ReturnStmtNT" ->
                           With(interpretExpr(funcEnv, result.next[1].Right,
                                              result.st), LAMBDA val :
                              SR(<<Node("ReturnStmtNT", <<>>, val.v, <<>>, <<>>)>>
                                   \o Tail(stm), val.st))
                      [] OTHER -> SR(Tail(stm), result.st)))

interpretReturnStmt(env, stm, st) == SR(stm, st)

interpretStmt(env, stm, st) ==
  IF st.halt # "" THEN SR(<<>>, st)
  ELSE IF stm = <<>> THEN SR(<<>>, Halt(st, "panic"))                 \* stmt.Type on nil
  ELSE LET t == stm[1].Type IN
    CASE t \in {"DeclarationNT", "StmtNT", "ExprStmtNT"} ->
           With(interpretStmt(env, stm[1].Right, st), LAMBDA r :
              IF r.st.halt # "" THEN SR(<<>>, r.st) ELSE SR(Tail(stm), r.st))
      [] t = "VarDeclNT" -> interpretVarDecl(env, stm, st)
      [] t = "FunDeclNT" -> interpretFunDecl(env, stm, st)
      [] t = "AssignmentNT" -> interpretAssignment(env, stm, st)
      [] t = "BlockNT" -> interpretBlock(env, stm, st)
      [] t = "IfStmtNT" -> interpretIfStmt(env, stm, st)
      [] t = "WhileStmtNT" -> interpretWhileStmt(env, stm, st)
      [] t = "ReturnStmtNT" -> interpretReturnStmt(env, stm, st)
      [] t = "CallNT" -> interpretCall(env, stm, st)
      [] t = "PrintStmtNT" ->
           With(interpretExpr(env, stm[1].Right, st), LAMBDA val :
              IF val.st.halt # "" THEN SR(<<>>, val.st)
              ELSE SR(Tail(stm), Emit(val.st, Event("print", Node_ToString(val.v), ""))))
      [] OTHER -> SR(<<>>, RuntimeError(st, "not a statement"))

(***************************************************************************)
(* The scanner as a state machine: Lex calls lex(tokens, source, 1, nil),  *)
(* and every step is one call of the tail-recursive lex.                   *)
(***************************************************************************)
MaxSrcLen == 3

LexAlphabet ==
  { Ord("o"), Ord("r"), Ord("1"), Ord("."), Ord(" "), Ord("\n"), Ord("!"),
    Ord("="), Ord("/"), Ord("\""), Ord("@"), Ord("(") }

Sources == UNION { [1..k -> LexAlphabet] : k \in 0..MaxSrcLen }

RunIdle ==
  /\ pc = "off" /\ tokens = <<>> /\ prgm = <<>> /\ parseErr = NoErr
  /\ stmt = <<>> /\ envs = <<>> /\ log = <<>>

LexIdle ==
  /\ lexPc = "off" /\ source = <<>> /\ lexCurrent = <<>> /\ lexTail = <<>>
  /\ lexLine = 1 /\ lexErr = NoErr

\* Lex(source)
InitLex ==
  /\ source \in Sources
  /\ lexPc = "lex"
  /\ lexCurrent = <<>>
  /\ lexTail = source
  /\ lexLine = 1
  /\ lexErr = NoErr
  /\ RunIdle

LexStep ==
  /\ lexPc = "lex"
  /\ With(lex(lexCurrent, lexTail, lexLine, lexErr), LAMBDA r :
        /\ lexPc' = r.pc
        /\ lexCurrent' = r.current
        /\ lexTail' = r.tail
        /\ lexLine' = r.line
        /\ lexErr' = r.err)
  /\ UNCHANGED <<source, runVars>>

NextLex == LexStep

SpecLex == InitLex /\ [][NextLex]_vars

\* C10: a source that scans without error yields a token sequence with
\* exactly one EOF token, which is the last one and whose lexeme is the single
\* NUL character; the empty source yields that EOF token alone, with line 1.
C10_EOFLastAndOnly ==
  (lexPc = "done") =>
    /\ lexErr = NoErr
    /\ Len(lexCurrent) >= 1
    /\ lexCurrent[Len(lexCurrent)].Type = "EOF"
    /\ lexCurrent[Len(lexCurrent)].Lexeme = <<0>>
    /\ \A i \in 1..(Len(lexCurrent) - 1) : lexCurrent[i].Type # "EOF"
    /\ (source = <<>> => lexCurrent = << [Type |-> "EOF", Lexeme |-> <<0>>, Line |-> 1] >>)

C10_Witness ==
  /\ lexPc = "done"
  /\ Len(source) = MaxSrcLen
  /\ Len(lexCurrent) >= 3


(***************************************************************************)
(* Token sequences as Lex emits them, for the inputs of Parse: every token *)
(* is on line 1, and the sequence ends with the EOF token.                 *)
(***************************************************************************)
FixedLexeme(ttype) ==
  CASE ttype = "LeftParen" -> <<"(">>   [] ttype = "RightParen" -> <<")">>
    [] ttype = "LeftBrace" -> <<"{">>   [] ttype = "RightBrace" -> <<"}">>
    [] ttype = "Comma" -> <<",">>       [] ttype = "Minus" -> <<"-">>
    [] ttype = "Plus" -> <<"+">>        [] ttype = "Semicolon" -> <<";">>
    [] ttype = "Slash" -> <<"/">>       [] ttype = "Star" -> <<"*">>
    [] ttype = "Bang" -> <<"!">>        [] ttype = "BangEqual" -> <<"!", "=">>
    [] ttype = "Equal" -> <<"=">>       [] ttype = "EqualEqual" -> <<"=", "=">>
    [] ttype = "Greater" -> <<">">>     [] ttype = "GreaterEqual" -> <<">", "=">>
    [] ttype = "Less" -> <<"<">>        [] ttype = "LessEqual" -> <<"<", "=">>
    [] ttype = "And" -> <<"a", "n", "d">>
    [] ttype = "Else" -> <<"e", "l", "s", "e">>
    [] ttype = "False" -> <<"f", "a", "l", "s", "e">>
    [] ttype = "Fun" -> <<"f", "u", "n">>
    [] ttype = "For" -> <<"f", "o", "r">>
    [] ttype = "If" -> <<"i", "f">>
    [] ttype = "Nil" -> <<"n", "i", "l">>
    [] ttype = "Or" -> <<"o", "r">>
    [] ttype = "Print" -> <<"p", "r", "i", "n", "t">>
    [] ttype = "Return" -> <<"r", "e", "t", "u", "r", "n">>
    [] ttype = "True" -> <<"t", "r", "u", "e">>
    [] ttype = "Var" -> <<"v", "a", "r">>
    [] ttype = "While" -> <<"w", "h", "i", "l", "e">>

Tk(ttype) == newToken(ttype, Bytes(FixedLexeme(ttype)), 1)
Id(c) == newToken("Identifier", <<Ord(c)>>, 1)
Num(d) == newToken("Number", <<Ord("0") + d>>, 1)
StrTok(cs) == newToken("String", Bytes(cs), 1)
EOFTok == eofToken(1)

\* Flatten a sequence of token sequences.
RECURSIVE Cat(_)
Cat(ss) == IF ss = <<>> THEN <<>> ELSE Head(ss) \o Cat(Tail(ss))

(***************************************************************************)
(* Parse as an action.                                                     *)
(***************************************************************************)
ParseAct ==
  /\ pc = "parse"
  /\ With(Parse(tokens), LAMBDA r :
        /\ prgm' = r.n
        /\ parseErr' = r.err
        /\ pc' = IF r.panic THEN "panic"
                 ELSE IF r.err # NoErr THEN "parseError"
                 ELSE "parsed")
  /\ UNCHANGED <<tokens, stmt, envs, log, lexVars>>

(***************************************************************************)
(* Inputs of the parser: expressions of binary operators over the operands *)
(* a, b, c, ... (one operand optionally under a unary operator), and       *)
(* chains of assignments, each as the expression statement "expr ;".       *)
(***************************************************************************)
MaxOps == 3
MaxAssign == 3

BinOpTypes == { "Or", "And", "EqualEqual", "Less", "Plus", "Minus", "Star" }

OperandNames == <<"a", "b", "c", "d", "e", "f", "g", "h">>

\* x1 op1 x2 ... opn x(n+1), with "-" before the first operand when u = 1 and
\* "!" before the last when u = 2
RECURSIVE OperandsAndOps(_, _, _)
OperandsAndOps(ops, u, i) ==
  LET operand == IF u = 1 /\ i = 1 THEN <<Tk("Minus"), Id(OperandNames[i])>>
                 ELSE IF u = 2 /\ i = Len(ops) + 1 THEN <<Tk("Bang"), Id(OperandNames[i])>>
                 ELSE <<Id(OperandNames[i])>>
  IN IF i = Len(ops) + 1 THEN operand
     ELSE operand \o <<Tk(ops[i])>> \o OperandsAndOps(ops, u, i + 1)

BinaryExprTokens(ops, u) == OperandsAndOps(ops, u, 1)

BinaryExprs ==
  { BinaryExprTokens(ops, u) :
      ops \in UNION { [1..k -> BinOpTypes] : k \in 1..MaxOps }, u \in 0..2 }

AsStatement(expr) == expr \o <<Tk("Semicolon"), EOFTok>>

BinaryExprInputs == { AsStatement(e) : e \in BinaryExprs }

AssignValues ==
  { <<Num(1)>>, <<Id("c")>>,
    BinaryExprTokens(<<"Or">>, 0), BinaryExprTokens(<<"Plus", "Star">>, 0) }

\* x1 = x2 = ... = xk = value
RECURSIVE AssignChainTokens(_, _)
AssignChainTokens(names, value) ==
  IF names = <<>> THEN value
  ELSE <<Id(Head(names)), Tk("Equal")>> \o AssignChainTokens(Tail(names), value)

AssignChains == UNION { [1..k -> {"a", "b"}] : k \in 1..MaxAssign }

AssignInputs ==
  { AsStatement(AssignChainTokens(names, value)) :
      names \in AssignChains, value \in AssignValues }

\* target = value ; where target is an expression other than a plain identifier
NonIdentTargets ==
  { <<Num(1)>>, <<StrTok(<<"s">>)>>, <<Tk("LeftParen"), Id("a"), Tk("RightParen")>>,
    <<Tk("Bang"), Id("a")>>, BinaryExprTokens(<<"Plus">>, 0), BinaryExprTokens(<<"Or">>, 0) }

NonIdentValues == { <<Num(2)>>, <<Id("c")>>, AssignChainTokens(<<"b">>, <<Num(2)>>) }

NonIdentCases ==
  { [tokens |-> AsStatement(target \o <<Tk("Equal")>> \o value), target |-> target] :
      target \in NonIdentTargets, value \in NonIdentValues }

NonIdentInputs == { c.tokens : c \in NonIdentCases }

ParseInputs == BinaryExprInputs \cup AssignInputs \cup NonIdentInputs

InitParse ==
  /\ tokens \in ParseInputs
  /\ pc = "parse"
  /\ prgm = <<>> /\ parseErr = NoErr /\ stmt = <<>> /\ envs = <<>> /\ log = <<>>
  /\ LexIdle

NextParse == ParseAct

SpecParse == InitParse /\ [][NextParse]_vars

(***************************************************************************)
(* The tree the grammar fixes for an expression of binary operators, built *)
(* without the parser: the root is the last operator of the lowest level   *)
(* outside any unary operand.                                              *)
(***************************************************************************)
Level(ttype) ==
  CASE ttype = "Or" -> 1
    [] ttype = "And" -> 2
    [] ttype \in {"EqualEqual", "BangEqual"} -> 3
    [] ttype \in {"Less", "LessEqual", "Greater", "GreaterEqual"} -> 4
    [] ttype \in {"Plus", "Minus"} -> 5
    [] ttype \in {"Star", "Slash"} -> 6

LevelNodeType(l) ==
  <<"LogicOrNT", "LogicAndNT", "EqualityNT", "ComparisonNT", "TermNT", "FactorNT">>[l]

\* the binary operators of toks[lo..hi]: an operator token that follows an operand
BinaryAt(toks, lo, hi) ==
  { i \in (lo + 1)..hi :
      /\ toks[i].Type \in BinOpTypes
      /\ toks[i - 1].Type \in {"Identifier", "Number"} }

RECURSIVE GrammarTree(_, _, _)
GrammarTree(toks, lo, hi) ==
  LET bin == BinaryAt(toks, lo, hi)
  IN IF bin = {}
       THEN IF toks[lo].Type \in {"Minus", "Bang"}
              THEN Node("UnaryNT", <<>>, <<GrammarTree(toks, lo + 1, hi)>>, <<>>, toks[lo].Lexeme)
            ELSE IF toks[lo].Type = "Number"
              THEN Node("NumberNT", <<>>, <<>>, <<>>, encodeLoxNumberFromString(toks[lo].Lexeme))
            ELSE Node("IdentifierNT", <<>>, <<>>, <<>>, toks[lo].Lexeme)
     ELSE LET lowest == CHOOSE l \in 1..6 :
                          /\ \E i \in bin : Level(toks[i].Type) = l
                          /\ \A i \in bin : Level(toks[i].Type) >= l
              root == CHOOSE i \in bin :
                        /\ Level(toks[i].Type) = lowest
                        /\ \A j \in bin : Level(toks[j].Type) = lowest => j <= i
          IN Node(LevelNodeType(lowest),
                  <<GrammarTree(toks, lo, root - 1)>>,
                  <<GrammarTree(toks, root + 1, hi)>>,
                  <<>>, toks[root].Lexeme)

\* the expression of the single expression statement of a parsed program
ParsedExpr == prgm[1].Right[1].Right

\* C4: for an expression of binary operators, Parse yields the tree fixed by
\* the precedence levels or < and < equality < comparison < term < factor
\* (< unary), the operators of one level folded to the left.
C4_PrecedenceTree ==
  (tokens \in BinaryExprInputs /\ pc # "parse") =>
    /\ pc = "parsed"
    /\ Len(prgm[1].Right) = 1
    /\ prgm[1].Right[1].Type = "ExprStmtNT"
    /\ ParsedExpr = <<GrammarTree(tokens, 1, Len(tokens) - 2)>>

\* a + b * c, parsed: the root is + and its right child is *
C4_Witness ==
  /\ tokens = AsStatement(BinaryExprTokens(<<"Plus", "Star">>, 0))
  /\ pc = "parsed"
  /\ ParsedExpr[1].Type = "TermNT"
  /\ ParsedExpr[1].Right[1].Type = "FactorNT"

\* the tree of x1 = x2 = ... = xk = value
RECURSIVE AssignTree(_, _)
AssignTree(names, valueTree) ==
  IF names = <<>> THEN valueTree
  ELSE Node("AssignmentNT",
            <<Node("IdentifierNT", <<>>, <<>>, <<>>, <<Ord(Head(names))>>)>>,
            <<AssignTree(Tail(names), valueTree)>>,
            <<>>, <<Ord("=")>>)

\* C5: assignment is right-associative: x1 = x2 = ... = v parses to an
\* Assignment with target x1 whose right child is the Assignment x2 = ... = v.
C5_AssignRightAssoc ==
  (tokens \in AssignInputs /\ pc # "parse") =>
    /\ pc = "parsed"
    /\ \A names \in AssignChains : \A value \in AssignValues :
         tokens = AsStatement(AssignChainTokens(names, value)) =>
           ParsedExpr = <<AssignTree(names, GrammarTree(value, 1, Len(value)))>>

\* a = b = 1, parsed
C5_Witness ==
  /\ tokens = AsStatement(AssignChainTokens(<<"a", "b">>, <<Num(1)>>))
  /\ pc = "parsed"
  /\ ParsedExpr[1].Type = "AssignmentNT"
  /\ ParsedExpr[1].Left[1].Data = <<Ord("a")>>
  /\ ParsedExpr[1].Right[1].Type = "AssignmentNT"
  /\ ParsedExpr[1].Right[1].Left[1].Data = <<Ord("b")>>
  /\ ParsedExpr[1].Right[1].Right[1].Type = "NumberNT"

(***************************************************************************)
(* Interpret as actions: its set-up, and one step per iteration of         *)
(* "for stmt != nil { stmt = global.interpretStmt(stmt) }".  The global    *)
(* environment is envs[1].  The entry binary runs Interpret only on the    *)
(* program of a parse that gave no error.                                  *)
(***************************************************************************)
\* global after setNativeFunctions
setNativeFunctions ==
  [Enclosing |-> 0,
   Values |-> << << Bytes(<<"c", "l", "o", "c", "k">>),
                    <<Node("CallableNT",
                           <<Node("IdentifierNT", <<>>, <<>>, <<>>,
                                  encodeString(Bytes(<<"c", "l", "o", "c", "k">>)))>>,
                           <<>>, <<>>, <<0>>)>> >> >>]

InterpretStart ==
  /\ pc = "parsed"
  /\ IF prgm[1].Type # "ProgramNT"
       THEN /\ log' = Append(log, Event("error", <<>>, "..."))
            /\ pc' = "done"
            /\ UNCHANGED <<stmt, envs>>
       ELSE /\ envs' = <<setNativeFunctions>>
            /\ stmt' = prgm[1].Right
            /\ pc' = "run"
            /\ UNCHANGED log
  /\ UNCHANGED <<tokens, prgm, parseErr, lexVars>>

InterpretStep ==
  /\ pc = "run"
  /\ stmt # <<>>
  /\ With(interpretStmt(1, stmt, [envs |-> envs, log |-> log, halt |-> "", fuel |-> MaxFuel]),
          LAMBDA r :
            /\ envs' = r.st.envs
            /\ log' = r.st.log
            /\ stmt' = IF r.st.halt # "" THEN <<>> ELSE r.next
            /\ pc' = IF r.st.halt # "" THEN r.st.halt ELSE "run")
  /\ UNCHANGED <<tokens, prgm, parseErr, lexVars>>

InterpretEnd ==
  /\ pc = "run"
  /\ stmt = <<>>
  /\ pc' = "done"
  /\ UNCHANGED <<tokens, prgm, parseErr, stmt, envs, log, lexVars>>

\* Interpret's loop run to its end from statement s: how it ends, and the log.
\* A step that returns the statement it was given repeats for ever ("hang").
RECURSIVE InterpretLoop(_, _, _)
InterpretLoop(s, e, l) ==
  IF s = <<>> THEN [status |-> "done", log |-> l]
  ELSE LET r == interpretStmt(1, s, [envs |-> e, log |-> l, halt |-> "", fuel |-> MaxFuel])
       IN IF r.st.halt # "" THEN [status |-> r.st.halt, log |-> r.st.log]
          ELSE IF r.next = s /\ r.st.envs = e /\ r.st.log = l
            THEN [status |-> "hang", log |-> l]
          ELSE InterpretLoop(r.next, r.st.envs, r.st.log)

\* Parse, then Interpret, as one function of the tokens
Run(toks) ==
  LET p == Parse(toks)
  IN IF p.panic THEN [status |-> "panic", log |-> <<>>]
     ELSE IF p.err # NoErr THEN [status |-> "parseError", log |-> <<>>]
     ELSE InterpretLoop(p.n[1].Right, <<setNativeFunctions>>, <<>>)

(***************************************************************************)
(* What a run shows: the lines and error reports on standard output, and   *)
(* how the run ended.                                                      *)
(***************************************************************************)
IsOutput(e) == e.kind \in {"print", "error"}
IsPrint(e) == e.kind = "print"
Stdout(l) == SelectSeq(l, IsOutput)
Printed(l) == [i \in 1..Len(SelectSeq(l, IsPrint)) |-> SelectSeq(l, IsPrint)[i].text]
ErrorCount(l) == Cardinality({ i \in 1..Len(l) : l[i].kind = "error" })

Hung == pc = "run" /\ stmt # <<>> /\ stmt[1].Type = "ReturnStmtNT"
AtRest == pc \in {"done", "panic", "parseError", "diverge", "unmodelled"} \/ Hung
Status == IF Hung THEN "hang" ELSE pc

(***************************************************************************)
(* Programs, as token sequences.                                           *)
(***************************************************************************)
SrcProgram(stmts) == Cat(stmts) \o <<EOFTok>>
SrcVar(name, value) == <<Tk("Var"), Id(name), Tk("Equal")>> \o value \o <<Tk("Semicolon")>>
SrcPrint(expr) == <<Tk("Print")>> \o expr \o <<Tk("Semicolon")>>
SrcExpr(expr) == expr \o <<Tk("Semicolon")>>
SrcAssign(name, value) == <<Id(name), Tk("Equal")>> \o value
SrcBlock(stmts) == <<Tk("LeftBrace")>> \o Cat(stmts) \o <<Tk("RightBrace")>>
SrcFun(name, param, stmts) ==
  <<Tk("Fun"), Id(name), Tk("LeftParen"), Id(param), Tk("RightParen")>> \o SrcBlock(stmts)
SrcCall(name, arg) == <<Id(name), Tk("LeftParen")>> \o arg \o <<Tk("RightParen")>>
SrcWhile(cond, body) == <<Tk("While"), Tk("LeftParen")>> \o cond \o <<Tk("RightParen")>> \o body
SrcBinary(left, op, right) == left \o <<Tk(op)>> \o right

\* literals: the text print shows for each is its lexeme
Literals ==
  { <<Num(1)>>, <<Num(2)>>, <<Num(0)>>, <<StrTok(<<"a">>)>>, <<StrTok(<<"1">>)>>,
    <<StrTok(<<>>)>>, <<Tk("True")>>, <<Tk("False")>>, <<Tk("Nil")>> }
LitText(lit) == lit[1].Lexeme
LitTruthy(lit) == lit[1].Type \notin {"False", "Nil"}

\* var x = outer; { var x = inner; [x = assigned;] print x; } print x;
\* (assigned = <<>> leaves the assignment out)
ShadowProgram(outer, inner, assigned) ==
  SrcProgram(<< SrcVar("x", outer),
                SrcBlock(<< SrcVar("x", inner),
                            IF assigned = <<>> THEN <<>> ELSE SrcExpr(SrcAssign("x", assigned)),
                            SrcPrint(<<Id("x")>>) >>),
                SrcPrint(<<Id("x")>>) >>)

ShadowAssigned == { <<>>, <<Num(2)>>, <<StrTok(<<"a">>)>> }

ShadowCases ==
  { [tokens |-> ShadowProgram(o, i, a), outer |-> o, inner |-> i, assigned |-> a] :
      o \in Literals, i \in Literals, a \in ShadowAssigned }

ShadowInputs == { c.tokens : c \in ShadowCases }

\* var i = 0; fun g(d) { i = i + d; return i; }
ForPrelude ==
  << SrcVar("i", <<Num(0)>>),
     SrcFun("g", "d", << SrcExpr(SrcAssign("i", SrcBinary(<<Id("i")>>, "Plus", <<Id("d")>>))),
                           <<Tk("Return"), Id("i"), Tk("Semicolon")>> >>) >>

MaxLoop == 2

ForInits == { SrcVar("j", <<Num(0)>>), SrcExpr(SrcAssign("i", <<Num(0)>>)) }
ForConds == { SrcBinary(<<Id("i")>>, "Less", <<Num(n)>>) : n \in 0..MaxLoop }
ForIncrs == { SrcAssign("i", SrcBinary(<<Id("i")>>, "Plus", <<Num(1)>>)),
              SrcCall("g", <<Num(1)>>) }
ForBodies == { SrcPrint(<<Id("i")>>), SrcBlock(<<SrcPrint(<<Id("i")>>)>>),
               SrcPrint(<<Id("u")>>) }

\* ... for (init cond; incr) body
ForProgram(init, cond, incr, body) ==
  SrcProgram(ForPrelude \o
             << <<Tk("For"), Tk("LeftParen")>> \o init \o cond \o <<Tk("Semicolon")>>
                  \o incr \o <<Tk("RightParen")>> \o body >>)

\* ... { init while (cond) { body incr; } }
ManualProgram(init, cond, incr, body) ==
  SrcProgram(ForPrelude \o
             << SrcBlock(<< init, SrcWhile(cond, SrcBlock(<<body, SrcExpr(incr)>>)) >>) >>)

ForCases ==
  { [tokens |-> ForProgram(init, cond, incr, body),
     manual |-> ManualProgram(init, cond, incr, body)] :
      init \in ForInits, cond \in ForConds, incr \in ForIncrs, body \in ForBodies }

ForInputs == { c.tokens : c \in ForCases }

\* fun f(a) { body } use print 9;
CallBodies == { "return a", "return 7", "print return", "print", "empty" }
CallUses == { "print", "stmt", "var" }
CallArgs == { <<Num(1)>>, <<StrTok(<<"a">>)>> }

CallBodySrc(body) ==
  CASE body = "return a" -> << <<Tk("Return"), Id("a"), Tk("Semicolon")>> >>
    [] body = "return 7" -> << <<Tk("Return"), Num(7), Tk("Semicolon")>> >>
    [] body = "print return" -> << SrcPrint(<<Id("a")>>), <<Tk("Return"), Id("a"), Tk("Semicolon")>> >>
    [] body = "print" -> << SrcPrint(<<Id("a")>>) >>
    [] body = "empty" -> << >>

CallUseSrc(use, arg) ==
  CASE use = "print" -> << SrcPrint(SrcCall("f", arg)) >>
    [] use = "stmt" -> << SrcExpr(SrcCall("f", arg)) >>
    [] use = "var" -> << SrcVar("r", SrcCall("f", arg)), SrcPrint(<<Id("r")>>) >>

CallProgram(body, use, arg) ==
  SrcProgram(<< SrcFun("f", "a", CallBodySrc(body)) >> \o CallUseSrc(use, arg)
             \o << SrcPrint(<<Num(9)>>) >>)

CallCases ==
  { [tokens |-> CallProgram(body, use, arg), body |-> body, use |-> use, arg |-> arg] :
      body \in CallBodies, use \in CallUses, arg \in CallArgs }

CallInputs == { c.tokens : c \in CallCases }

\* print e; for an expression e whose evaluation reports a run-time error
PrintFailExprs ==
  { SrcBinary(<<Num(1)>>, "Plus", <<StrTok(<<"x">>)>>),
    <<Id("u")>>,
    SrcBinary(<<Num(1)>>, "Less", <<Tk("True")>>),
    SrcBinary(<<StrTok(<<"a">>)>>, "Minus", <<Num(1)>>),
    SrcBinary(<<Num(1)>>, "Star", <<Tk("Nil")>>) }

PrintFailProgram(e) == SrcProgram(<< SrcPrint(e) >>)

PrintFailInputs == { PrintFailProgram(e) : e \in PrintFailExprs }

\* a statement that reports a run-time error, followed by print 2;, at top
\* level or inside a block, a loop body or a function body
FailStmts ==
  { SrcExpr(SrcAssign("a", <<Num(1)>>)),                          \* a is not declared
    SrcVar("v", <<Num(1)>>) \o SrcVar("v", <<Num(2)>>) }          \* v is declared twice

FailContexts == { "top", "block", "loop", "function" }

FailProgram(fail, context) ==
  LET then == SrcPrint(<<Num(2)>>)
      last == SrcPrint(<<Num(3)>>)
  IN CASE context = "top" -> SrcProgram(<< fail, then >>)
       [] context = "block" -> SrcProgram(<< SrcBlock(<< fail, then >>), last >>)
       [] context = "loop" ->
            SrcProgram(<< SrcVar("i", <<Num(0)>>),
                          SrcWhile(SrcBinary(<<Id("i")>>, "Less", <<Num(1)>>),
                                   SrcBlock(<< SrcExpr(SrcAssign("i", <<Num(1)>>)), fail, then >>)),
                          last >>)
       [] context = "function" ->
            SrcProgram(<< SrcFun("f", "p", << fail, then,
                                             <<Tk("Return"), Num(1), Tk("Semicolon")>> >>),
                          SrcExpr(SrcCall("f", <<Num(0)>>)),
                          last >>)

FailInputs == { FailProgram(fail, context) : fail \in FailStmts, context \in FailContexts }

\* "call": fun f(p) { print p; return p; } var x = left; print x or f(right);
\* "var":  var x = left; var y = right; var r = x or y; print r;
OrForms == { "call", "var" }

OrProgram(form, left, right) ==
  IF form = "call"
    THEN SrcProgram(<< SrcFun("f", "p", << SrcPrint(<<Id("p")>>),
                                          <<Tk("Return"), Id("p"), Tk("Semicolon")>> >>),
                       SrcVar("x", left),
                       SrcPrint(SrcBinary(<<Id("x")>>, "Or", SrcCall("f", right))) >>)
    ELSE SrcProgram(<< SrcVar("x", left), SrcVar("y", right),
                       SrcVar("r", SrcBinary(<<Id("x")>>, "Or", <<Id("y")>>)),
                       SrcPrint(<<Id("r")>>) >>)

OrCases ==
  { [tokens |-> OrProgram(form, left, right), form |-> form, left |-> left, right |-> right] :
      form \in OrForms, left \in Literals, right \in Literals }

OrInputs == { c.tokens : c \in OrCases }

\* var a = left; var b = right; print a == b; print a != b;
EqOperands ==
  Literals \cup
    { <<newToken("Identifier", Bytes(<<"c", "l", "o", "c", "k">>), 1)>>,
      <<Tk("LeftParen"), Tk("Nil"), Tk("RightParen")>>,
      SrcBinary(<<Num(1)>>, "Plus", <<Num(1)>>) }

EqProgram(left, right) ==
  SrcProgram(<< SrcVar("a", left), SrcVar("b", right),
                SrcPrint(SrcBinary(<<Id("a")>>, "EqualEqual", <<Id("b")>>)),
                SrcPrint(SrcBinary(<<Id("a")>>, "BangEqual", <<Id("b")>>)) >>)

EqInputs == { EqProgram(left, right) : left \in EqOperands, right \in EqOperands }

\* var x = outer; fun f(p) { print x; return p; } and then a call of f from
\* "global": f(0);
\* "block":  { var x = inner; f(0); }
\* "caller": fun h(x) { f(0); return x; } h(inner);
ScopeLits == { <<Num(1)>>, <<Num(2)>>, <<StrTok(<<"a">>)>>, <<Tk("Nil")>> }
ScopeSites == { "global", "block", "caller" }

ScopeProgram(site, outer, inner) ==
  LET f == SrcFun("f", "p", << SrcPrint(<<Id("x")>>),
                               <<Tk("Return"), Id("p"), Tk("Semicolon")>> >>)
      callF == SrcExpr(SrcCall("f", <<Num(0)>>))
  IN CASE site = "global" -> SrcProgram(<< SrcVar("x", outer), f, callF >>)
       [] site = "block" ->
            SrcProgram(<< SrcVar("x", outer), f,
                          SrcBlock(<< SrcVar("x", inner), callF >>) >>)
       [] site = "caller" ->
            SrcProgram(<< SrcVar("x", outer), f,
                          SrcFun("h", "x", << callF,
                                              <<Tk("Return"), Id("x"), Tk("Semicolon")>> >>),
                          SrcExpr(SrcCall("h", inner)) >>)

ScopeCases ==
  { [tokens |-> ScopeProgram(site, outer, inner), site |-> site, outer |-> outer,
     inner |-> inner] : site \in ScopeSites, outer \in ScopeLits, inner \in ScopeLits }

ScopeInputs == { c.tokens : c \in ScopeCases }

\* print -operand;
NegOperands == Literals \ { <<Num(0)>> }

NegProgram(operand) == SrcProgram(<< SrcPrint(<<Tk("Minus")>> \o operand) >>)

NegCases == { [tokens |-> NegProgram(operand), operand |-> operand] : operand \in NegOperands }

NegInputs == { c.tokens : c \in NegCases }


\* a call of f with no argument: f(); print f(); var r = f();
EmptyCallUses == { "stmt", "print", "var" }

EmptyCallProgram(use) ==
  LET callF == <<Id("f"), Tk("LeftParen"), Tk("RightParen")>>
  IN CASE use = "stmt" -> SrcProgram(<< SrcExpr(callF) >>)
       [] use = "print" -> SrcProgram(<< SrcPrint(callF) >>)
       [] use = "var" -> SrcProgram(<< SrcVar("r", callF) >>)

EmptyCallInputs == { EmptyCallProgram(use) : use \in EmptyCallUses }


\* for (init cond; incr) print 1; with each clause present or left out, at
\* least one left out: init is var j = 0; cond is j < 1, incr is j = j + 1
ForOmissions == (SUBSET { "init", "cond", "incr" }) \ { {} }

ForOmitProgram(omitted) ==
  SrcProgram(<< <<Tk("For"), Tk("LeftParen")>>
                  \o (IF "init" \in omitted THEN <<Tk("Semicolon")>>
                      ELSE SrcVar("j", <<Num(0)>>))
                  \o (IF "cond" \in omitted THEN <<>>
                      ELSE SrcBinary(<<Id("j")>>, "Less", <<Num(1)>>))
                  \o <<Tk("Semicolon")>>
                  \o (IF "incr" \in omitted THEN <<>>
                      ELSE SrcAssign("j", SrcBinary(<<Id("j")>>, "Plus", <<Num(1)>>)))
                  \o <<Tk("RightParen")>> \o SrcPrint(<<Num(1)>>) >>)

ForOmitCases == { [tokens |-> ForOmitProgram(o), omitted |-> o] : o \in ForOmissions }

ForOmitInputs == { c.tokens : c \in ForOmitCases }


\* var x; print 9;  at top level, and inside a block
VarNoInitSites == { "top", "block" }

VarNoInitProgram(site) ==
  LET decl == <<Tk("Var"), Id("x"), Tk("Semicolon")>>
      then == SrcPrint(<<Num(9)>>)
  IN IF site = "top" THEN SrcProgram(<< decl, then >>)
     ELSE SrcProgram(<< SrcBlock(<< decl, then >>) >>)

VarNoInitInputs == { VarNoInitProgram(site) : site \in VarNoInitSites }


\* fun g(d) { print d; return d; } and then, with D one of
\*   var x = g(second);   or   fun x(p) { return p; }
\* global:     var x = first; D print x;
\* block:      { var x = first; D print x; }
\* enclosing:  var x = first; { D print x; } print x;
RedeclSites == { "global", "block", "enclosing" }
RedeclKinds == { "var", "fun" }
RedeclFirsts == { <<Num(1)>>, <<StrTok(<<"a">>)>>, <<Tk("Nil")>> }
RedeclSeconds == { <<Num(2)>>, <<Tk("True")>> }

RedeclProgram(site, kind, first, second) ==
  LET g == SrcFun("g", "d", << SrcPrint(<<Id("d")>>),
                               <<Tk("Return"), Id("d"), Tk("Semicolon")>> >>)
      x == SrcVar("x", first)
      D == IF kind = "var" THEN SrcVar("x", SrcCall("g", second))
           ELSE SrcFun("x", "p", << <<Tk("Return"), Id("p"), Tk("Semicolon")>> >>)
      show == SrcPrint(<<Id("x")>>)
  IN CASE site = "global" -> SrcProgram(<< g, x, D, show >>)
       [] site = "block" -> SrcProgram(<< g, SrcBlock(<< x, D, show >>) >>)
       [] site = "enclosing" -> SrcProgram(<< g, x, SrcBlock(<< D, show >>), show >>)

RedeclCases ==
  { [tokens |-> RedeclProgram(s, k, a, b), site |-> s, kind |-> k, first |-> a, second |-> b] :
      s \in RedeclSites, k \in RedeclKinds, a \in RedeclFirsts, b \in RedeclSeconds }

RedeclInputs == { c.tokens : c \in RedeclCases }


\* [var x = 1;] { [var x = 2;] { [var x = "a";] x = value; } }
\* with the declarations of x at the levels in defs (1 global, 2 the outer
\* block, 3 the inner block)
SetLevels == 1..3
SetOriginal(level) == CASE level = 1 -> <<Num(1)>> [] level = 2 -> <<Num(2)>>
                           [] level = 3 -> <<StrTok(<<"a">>)>>
SetValues == { <<Num(0)>>, <<Tk("True")>> }

SetDecl(defs, level) == IF level \in defs THEN SrcVar("x", SetOriginal(level)) ELSE <<>>

SetProgram(defs, value) ==
  SrcProgram(<< SetDecl(defs, 1),
                SrcBlock(<< SetDecl(defs, 2),
                            SrcBlock(<< SetDecl(defs, 3),
                                        SrcExpr(SrcAssign("x", value)) >>) >>) >>)

SetCases ==
  { [tokens |-> SetProgram(d, v), defs |-> d, value |-> v] :
      d \in SUBSET SetLevels, v \in SetValues }

SetInputs == { c.tokens : c \in SetCases }


SrcReturn(value) == <<Tk("Return")>> \o value \o <<Tk("Semicolon")>>
SrcIf(cond, then) == <<Tk("If"), Tk("LeftParen")>> \o cond \o <<Tk("RightParen")>> \o then
SrcIfElse(cond, then, else) == SrcIf(cond, then) \o <<Tk("Else")>> \o else

\* fun f(p) { body } print f(true); print 9;  where body holds return value;
\* under blocks, ifs and whiles, every condition being true, and a print
\* after each construct the return sits in
ReturnShapes ==
  { "plain", "block", "block block", "if", "if block", "else", "if if", "while",
    "while block", "while if", "while if block", "block while block if block", "if while" }
ReturnValues == { <<Num(1)>>, <<StrTok(<<"a">>)>>, <<Id("p")>> }

ReturnBody(shape, value) ==
  LET ret == SrcReturn(value)
      p == <<Id("p")>>
      after(n) == SrcPrint(<<Num(n)>>)
  IN CASE shape = "plain" -> << ret, after(2) >>
       [] shape = "block" -> << SrcBlock(<< ret, after(2) >>), after(3) >>
       [] shape = "block block" ->
            << SrcBlock(<< SrcBlock(<< ret, after(2) >>), after(3) >>), after(4) >>
       [] shape = "if" -> << SrcIf(p, ret), after(2) >>
       [] shape = "if block" -> << SrcIf(p, SrcBlock(<< ret, after(2) >>)), after(3) >>
       [] shape = "else" -> << SrcIfElse(<<Tk("False")>>, after(0), ret), after(2) >>
       [] shape = "if if" -> << SrcIf(p, SrcIf(p, ret)), after(2) >>
       [] shape = "while" -> << SrcWhile(p, ret), after(2) >>
       [] shape = "while block" -> << SrcWhile(p, SrcBlock(<< ret, after(2) >>)), after(3) >>
       [] shape = "while if" -> << SrcWhile(p, SrcIf(p, ret)), after(2) >>
       [] shape = "while if block" -> << SrcWhile(p, SrcIf(p, SrcBlock(<< ret >>))), after(2) >>
       [] shape = "block while block if block" ->
            << SrcBlock(<< SrcWhile(p, SrcBlock(<< SrcIf(p, SrcBlock(<< ret, after(2) >>)),
                                                   after(3) >>)),
                           after(4) >>),
               after(5) >>
       [] shape = "if while" -> << SrcIf(p, SrcWhile(p, ret)), after(2) >>

ReturnProgram(shape, value) ==
  SrcProgram(<< SrcFun("f", "p", ReturnBody(shape, value)),
                SrcPrint(SrcCall("f", <<Tk("True")>>)),
                SrcPrint(<<Num(9)>>) >>)

ReturnCases ==
  { [tokens |-> ReturnProgram(s, v), shape |-> s, value |-> v] :
      s \in ReturnShapes, v \in ReturnValues }

ReturnInputs == { c.tokens : c \in ReturnCases }


\* statements that evaluate a sum or difference with the undefined y on
\* one side, followed by print 9;
UndefExprs ==
  { SrcBinary(<<Num(1)>>, "Plus", <<Id("y")>>),
    SrcBinary(<<Id("y")>>, "Plus", <<Num(1)>>),
    SrcBinary(<<Num(1)>>, "Minus", <<Id("y")>>),
    SrcBinary(<<StrTok(<<"a">>)>>, "Plus", <<Id("y")>>) }
UndefUses == { "print", "stmt", "var" }

UndefProgram(e, use) ==
  SrcProgram(<< CASE use = "print" -> SrcPrint(e)
                  [] use = "stmt" -> SrcExpr(e)
                  [] use = "var" -> SrcVar("z", e),
                SrcPrint(<<Num(9)>>) >>)

UndefInputs == { UndefProgram(e, use) : e \in UndefExprs, use \in UndefUses }


\* a statement whose expression is  1 op  with nothing after the operator
DanglingOps ==
  { "Plus", "Minus", "Star", "Slash", "Less", "GreaterEqual", "EqualEqual", "BangEqual",
    "And", "Or" }
DanglingUses == { "print", "stmt", "var" }

DanglingProgram(op, use) ==
  LET e == <<Num(1), Tk(op)>>
  IN SrcProgram(<< CASE use = "print" -> SrcPrint(e)
                     [] use = "stmt" -> SrcExpr(e)
                     [] use = "var" -> SrcVar("z", e) >>)

DanglingCases ==
  { [tokens |-> DanglingProgram(op, use), op |-> op, use |-> use] :
      op \in DanglingOps, use \in DanglingUses }

DanglingInputs == { c.tokens : c \in DanglingCases }


\* fun f(a) { ... return; ... } use print 9;  with the return that has no
\* expression alone in the body, after a print, and in the block of an if
BareReturnShapes == { "plain", "after print", "if block" }
BareReturnUses == { "print", "var" }

BareReturnBody(shape) ==
  CASE shape = "plain" -> << SrcReturn(<<>>) >>
    [] shape = "after print" -> << SrcPrint(<<Id("a")>>), SrcReturn(<<>>) >>
    [] shape = "if block" -> << SrcIf(<<Id("a")>>, SrcBlock(<< SrcReturn(<<>>) >>)) >>

BareReturnProgram(shape, use) ==
  SrcProgram(<< SrcFun("f", "a", BareReturnBody(shape)) >> \o CallUseSrc(use, <<Num(1)>>)
             \o << SrcPrint(<<Num(9)>>) >>)

BareReturnCases ==
  { [tokens |-> BareReturnProgram(s, u), shape |-> s, use |-> u] :
      s \in BareReturnShapes, u \in BareReturnUses }

BareReturnInputs == { c.tokens : c \in BareReturnCases }


\* print 1; ... return value; ... print 9;  with the return outside any
\* function: at top level, in a block, in a branch of an if
StrayReturnSites == { "top", "block", "block block", "if", "else", "if block" }
StrayReturnValues == { <<Num(2)>>, <<Tk("Nil")>>, <<Id("u")>> }

StrayReturnSrc(site, value) ==
  LET ret == SrcReturn(value)
  IN CASE site = "top" -> ret
       [] site = "block" -> SrcBlock(<< ret >>)
       [] site = "block block" -> SrcBlock(<< SrcBlock(<< ret >>), SrcPrint(<<Num(3)>>) >>)
       [] site = "if" -> SrcIf(<<Tk("True")>>, ret)
       [] site = "else" -> SrcIfElse(<<Tk("False")>>, SrcPrint(<<Num(0)>>), ret)
       [] site = "if block" -> SrcIf(<<Tk("True")>>, SrcBlock(<< ret >>))

StrayReturnProgram(site, value) ==
  SrcProgram(<< SrcPrint(<<Num(1)>>), StrayReturnSrc(site, value), SrcPrint(<<Num(9)>>) >>)

StrayReturnInputs ==
  { StrayReturnProgram(site, value) : site \in StrayReturnSites, value \in StrayReturnValues }


\* fun f(a, b) { return b; }  var a = outer; print f(first, a); print 9;  with the
\* declaration of a and the call at top level or together in a block
ArgNameSites == { "global", "block" }
ArgNameOuters == { <<Num(1)>>, <<StrTok(<<"s">>)>> }
ArgNameFirsts == { <<Num(2)>>, <<Tk("True")>> }

ArgNameProgram(site, outer, first) ==
  LET fun == <<Tk("Fun"), Id("f"), Tk("LeftParen"), Id("a"), Tk("Comma"), Id("b"),
               Tk("RightParen")>> \o SrcBlock(<< SrcReturn(<<Id("b")>>) >>)
      use == << SrcVar("a", outer),
                SrcPrint(SrcCall("f", first \o <<Tk("Comma"), Id("a")>>)) >>
  IN SrcProgram(<< fun >>
                \o (IF site = "global" THEN use ELSE << SrcBlock(use) >>)
                \o << SrcPrint(<<Num(9)>>) >>)

ArgNameCases ==
  { [tokens |-> ArgNameProgram(site, outer, first), outer |-> outer, first |-> first] :
      site \in ArgNameSites, outer \in ArgNameOuters, first \in ArgNameFirsts }

ArgNameInputs == { c.tokens : c \in ArgNameCases }


\* print e; with a parenthesised expression in e, beside the same statement
\* without the parentheses (or with the value they enclose)
SrcGroup(e) == <<Tk("LeftParen")>> \o e \o <<Tk("RightParen")>>

GroupExprs ==
  { <<Num(1)>>, <<StrTok(<<"a">>)>>, <<Tk("True")>>, <<Tk("Nil")>>,
    SrcBinary(<<Num(1)>>, "Plus", <<Num(2)>>), SrcBinary(<<Num(1)>>, "Less", <<Num(2)>>) }

GroupCases ==
  { [tokens |-> SrcProgram(<< SrcPrint(SrcGroup(e)), SrcPrint(<<Num(9)>>) >>),
     plain |-> SrcProgram(<< SrcPrint(e), SrcPrint(<<Num(9)>>) >>)] : e \in GroupExprs }
  \cup
  { [tokens |-> SrcProgram(<< SrcPrint(SrcBinary(SrcGroup(SrcBinary(<<Num(1)>>, "Plus", <<Num(2)>>)),
                                                 "Star", <<Num(3)>>)),
                              SrcPrint(<<Num(9)>>) >>),
     plain |-> SrcProgram(<< SrcPrint(<<Num(9)>>), SrcPrint(<<Num(9)>>) >>)],
    [tokens |-> SrcProgram(<< SrcPrint(SrcBinary(<<Num(3)>>, "Minus", SrcGroup(<<Num(1)>>))),
                              SrcPrint(<<Num(9)>>) >>),
     plain |-> SrcProgram(<< SrcPrint(<<Num(2)>>), SrcPrint(<<Num(9)>>) >>)] }

GroupInputs == { c.tokens : c \in GroupCases }

\* var i = 0; while (i < n) body print 9;  with a body that is one statement,
\* beside the same loop with the body in braces
BareBodies ==
  LET step == SrcExpr(SrcAssign("i", SrcBinary(<<Id("i")>>, "Plus", <<Num(1)>>)))
  IN { step,
       SrcIf(<<Tk("True")>>, step),
       SrcIf(SrcBinary(<<Id("i")>>, "Less", <<Num(5)>>),
             SrcBlock(<< SrcPrint(<<Id("i")>>), step >>)),
       SrcIfElse(<<Tk("False")>>, SrcPrint(<<Num(0)>>), step) }

BareBodyProgram(n, body) ==
  SrcProgram(<< SrcVar("i", <<Num(0)>>),
                SrcWhile(SrcBinary(<<Id("i")>>, "Less", <<Num(n)>>), body),
                SrcPrint(<<Num(9)>>) >>)

BareBodyCases ==
  { [tokens |-> BareBodyProgram(n, body),
     braced |-> BareBodyProgram(n, SrcBlock(<< body >>)),
     n |-> n] : n \in 0..MaxLoop, body \in BareBodies }

BareBodyInputs == { c.tokens : c \in BareBodyCases }


\* an assignment where a value is expected: a = b = v; print x = v; and
\* var y = x = v; each followed by prints of the variables
AsExprForms == { "chain", "print", "var" }
AsExprValues == { <<Num(1)>>, <<Num(2)>>, <<StrTok(<<"a">>)>> }

AsExprProgram(form, v) ==
  CASE form = "chain" ->
         SrcProgram(<< SrcVar("a", <<Num(0)>>), SrcVar("b", <<Num(0)>>),
                       SrcExpr(SrcAssign("a", SrcAssign("b", v))),
                       SrcPrint(<<Id("a")>>), SrcPrint(<<Id("b")>>) >>)
    [] form = "print" ->
         SrcProgram(<< SrcVar("a", <<Num(0)>>), SrcVar("b", <<Num(0)>>),
                       SrcPrint(SrcAssign("b", v)), SrcPrint(<<Id("b")>>) >>)
    [] form = "var" ->
         SrcProgram(<< SrcVar("b", <<Num(0)>>), SrcVar("a", SrcAssign("b", v)),
                       SrcPrint(<<Id("a")>>), SrcPrint(<<Id("b")>>) >>)

AsExprCases ==
  { [tokens |-> AsExprProgram(form, v), form |-> form, value |-> v] :
      form \in AsExprForms, v \in AsExprValues }

AsExprInputs == { c.tokens : c \in AsExprCases }

Programs ==
  ShadowInputs \cup ForInputs \cup CallInputs \cup PrintFailInputs \cup FailInputs
    \cup OrInputs \cup EqInputs \cup ScopeInputs \cup NegInputs \cup EmptyCallInputs
    \cup ForOmitInputs \cup VarNoInitInputs \cup RedeclInputs \cup SetInputs
    \cup ReturnInputs \cup UndefInputs \cup DanglingInputs \cup BareReturnInputs
    \cup StrayReturnInputs \cup ArgNameInputs \cup GroupInputs \cup BareBodyInputs
    \cup AsExprInputs

(***************************************************************************)
(* The pipeline from tokens: Parse, then Interpret.                        *)
(***************************************************************************)
Init ==
  /\ tokens \in Programs
  /\ pc = "parse"
  /\ prgm = <<>> /\ parseErr = NoErr /\ stmt = <<>> /\ envs = <<>> /\ log = <<>>
  /\ LexIdle

Next == ParseAct \/ InterpretStart \/ InterpretStep \/ InterpretEnd

Spec == Init /\ [][Next]_vars

\* the value bound to the one-letter name in the global environment
Global(name) == ValueOf([envs |-> envs], 1, <<Ord(name)>>)

\* the value a literal evaluates to
LitValue(lit) == <<Node(CASE lit[1].Type = "Number" -> "NumberNT"
                          [] lit[1].Type = "String" -> "StringNT"
                          [] lit[1].Type \in {"True", "False"} -> "BoolNT"
                          [] lit[1].Type = "Nil" -> "NilNT",
                        <<>>, <<>>, <<>>, toValue(lit[1]))>>

Faulted == pc \in {"parseError", "panic", "diverge", "unmodelled"}

TextTrue == Bytes(<<"t", "r", "u", "e">>)
TextFalse == Bytes(<<"f", "a", "l", "s", "e">>)
TextNil == Bytes(<<"n", "i", "l">>)

\* C1: a variable declared in a block under the name of a variable of an
\* enclosing scope is a new binding of the block's own environment: reads in
\* the block after the declaration give the inner value (also after an
\* assignment to it in the block), the enclosing binding keeps its value, and
\* reads after the block give the enclosing value.
C1_BlockShadowing ==
  tokens \in ShadowInputs =>
    \A c \in ShadowCases :
      tokens = c.tokens =>
        /\ ~Faulted
        /\ pc = "done" =>
             /\ ErrorCount(log) = 0
             /\ Printed(log) = << LitText(IF c.assigned = <<>> THEN c.inner ELSE c.assigned),
                                  LitText(c.outer) >>
             /\ Global("x") = LitValue(c.outer)
             /\ Len(envs) = 2
             /\ envs[2].Enclosing = 1
             /\ ValueOf([envs |-> envs], 2, <<Ord("x")>>) =
                  LitValue(IF c.assigned = <<>> THEN c.inner ELSE c.assigned)

\* var x = 1; { var x = 2; print x; } print x; has printed 2 then 1
C1_Witness ==
  /\ tokens = ShadowProgram(<<Num(1)>>, <<Num(2)>>, <<>>)
  /\ pc = "done"
  /\ Printed(log) = << <<Ord("2")>>, <<Ord("1")>> >>

\* C2: for (init; cond; incr) body, with incr an assignment or a call,
\* prints the same lines and reports the same run-time errors, and ends the
\* same way, as { init; while (cond) { body; incr; } }.
C2_ForAsManualWhile ==
  (tokens \in ForInputs /\ AtRest) =>
    \A c \in ForCases :
      tokens = c.tokens =>
        LET manual == Run(c.manual)
        IN /\ Status = manual.status
           /\ Stdout(log) = Stdout(manual.log)

\* C3: a call of a user-defined function with as many arguments as parameters
\* runs the body and yields the value of the return statement that ended it,
\* or nil when the body ended without one, as an expression and as a
\* statement, and execution goes on after the call.
C3_CallYieldsReturnOrNil ==
  (tokens \in CallInputs /\ AtRest) =>
    \A c \in CallCases :
      tokens = c.tokens =>
        LET bodyPrints == IF c.body \in {"print return", "print"} THEN <<LitText(c.arg)>>
                          ELSE <<>>
            result == IF c.body \in {"return a", "print return"} THEN LitText(c.arg)
                      ELSE IF c.body = "return 7" THEN <<Ord("7")>>
                      ELSE TextNil
        IN /\ Status = "done"
           /\ ErrorCount(log) = 0
           /\ Printed(log) = bodyPrints \o (IF c.use = "stmt" THEN <<>> ELSE <<result>>)
                               \o << <<Ord("9")>> >>

\* C6: == of two values of different kinds is false and != is true; == of two
\* values of one kind among Number, String, Bool and Nil is true exactly when
\* their payloads are equal byte for byte.
C6_EqualityByKindAndPayload ==
  tokens \in EqInputs =>
    /\ ~Faulted
    /\ pc = "done" =>
         LET a == Global("a")[1]
             b == Global("b")[1]
         IN /\ ErrorCount(log) = 0
            /\ Len(Printed(log)) = 2
            /\ a.Type # b.Type => Printed(log) = <<TextFalse, TextTrue>>
            /\ (a.Type = b.Type /\ a.Type \in {"NumberNT", "StringNT", "BoolNT", "NilNT"}) =>
                 /\ Printed(log)[1] \in {TextTrue, TextFalse}
                 /\ (Printed(log)[1] = TextTrue) <=> (a.Data = b.Data)

\* 1 == "1" has printed false, and "a" == "a" true
C6_Witness ==
  /\ pc = "done"
  /\ \/ /\ tokens = EqProgram(<<Num(1)>>, <<StrTok(<<"1">>)>>)
        /\ Printed(log) = <<TextFalse, TextTrue>>
     \/ /\ tokens = EqProgram(<<StrTok(<<"a">>)>>, <<StrTok(<<"a">>)>>)
        /\ Printed(log) = <<TextTrue, TextFalse>>

\* C7: a print statement whose expression fails with a run-time error writes
\* nothing to standard output: no value and no empty line.
C7_FailedPrintWritesNothing ==
  (tokens \in PrintFailInputs /\ AtRest) =>
    /\ ErrorCount(log) >= 1
    /\ Printed(log) = <<>>

\* C8: once a run-time error is reported, no later statement runs: nothing
\* is printed and no name is bound after it, at top level or inside a block,
\* a loop body or a function body.
C8_NothingRunsAfterError ==
  tokens \in FailInputs =>
    \A i \in 1..Len(log) : \A j \in (i + 1)..Len(log) :
      log[i].kind = "error" => log[j].kind \notin {"print", "bind"}

\* C9: L or R evaluates L first; a truthy L is the result and R is not
\* evaluated; otherwise R is evaluated, and the result is R's value when R is
\* truthy and Bool false when it is not.
C9_OrYieldsFirstTruthy ==
  tokens \in OrInputs =>
    \A c \in OrCases :
      tokens = c.tokens =>
        /\ ~Faulted
        /\ pc = "done" =>
             LET text == IF LitTruthy(c.left) THEN LitText(c.left)
                         ELSE IF LitTruthy(c.right) THEN LitText(c.right)
                         ELSE TextFalse
             IN /\ ErrorCount(log) = 0
                /\ c.form = "call" =>
                     Printed(log) = IF LitTruthy(c.left) THEN <<text>>
                                    ELSE <<LitText(c.right), text>>
                /\ c.form = "var" =>
                     /\ Printed(log) = <<text>>
                     /\ Global("r") = IF LitTruthy(c.left) THEN Global("x")
                                      ELSE IF LitTruthy(c.right) THEN Global("y")
                                      ELSE <<Node("BoolNT", <<>>, <<>>, <<>>, <<0>>)>>

\* var x = nil; print x or f("a"); has run f and printed its a twice;
\* var x = 1; print x or f(2); has printed 1 alone
C9_Witness ==
  /\ pc = "done"
  /\ \/ /\ tokens = OrProgram("call", <<Tk("Nil")>>, <<StrTok(<<"a">>)>>)
        /\ Printed(log) = << <<Ord("a")>>, <<Ord("a")>> >>
     \/ /\ tokens = OrProgram("call", <<Num(1)>>, <<Num(2)>>)
        /\ Printed(log) = << <<Ord("1")>> >>

\* C11: a call runs the function body in a fresh environment whose parent is
\* the environment of the call site: a name that is neither parameter nor
\* local of the function reads the innermost binding visible from the caller.
C11_CallerEnvironment ==
  tokens \in ScopeInputs =>
    \A c \in ScopeCases :
      tokens = c.tokens =>
        /\ ~Faulted
        /\ pc = "done" =>
             /\ ErrorCount(log) = 0
             /\ Printed(log) = << LitText(IF c.site = "global" THEN c.outer ELSE c.inner) >>
             /\ c.site = "global" => Len(envs) = 3 /\ envs[2].Enclosing = 1
             /\ c.site = "block" => Len(envs) = 4 /\ envs[3].Enclosing = 2
             /\ c.site = "caller" => Len(envs) = 5 /\ envs[4].Enclosing = 3

\* var x = 1; fun f(p) { print x; return p; } { var x = 2; f(0); } has
\* printed 2, the x of the block the call is in
C11_Witness ==
  /\ pc = "done"
  /\ tokens = ScopeProgram("block", <<Num(1)>>, <<Num(2)>>)
  /\ Printed(log) = << <<Ord("2")>> >>

\* C12: unary - of an operand that evaluates to a Number yields the Number
\* of the opposite sign and reports nothing; of any other operand it reports
\* a run-time error.
C12_NegateNumber ==
  (tokens \in NegInputs /\ AtRest) =>
    \A c \in NegCases :
      tokens = c.tokens =>
        /\ pc = "done"
        /\ IF c.operand[1].Type = "Number"
             THEN /\ ErrorCount(log) = 0
                  /\ Printed(log) = << <<Ord("-")>> \o LitText(c.operand) >>
             ELSE ErrorCount(log) >= 1

\* Parse itself faulted: Interpret was never entered
ParseFaulted == pc = "panic" /\ envs = <<>>

\* C13: f() parses without error into a Call node whose callee is the
\* identifier f, whose argument list is empty and whose arity is 0.
C13_EmptyArgumentList ==
  (tokens \in EmptyCallInputs /\ pc # "parse") =>
    /\ ~ParseFaulted
    /\ parseErr = NoErr
    /\ prgm[1].Right[1].Right =
         <<Node("CallNT", <<Node("IdentifierNT", <<>>, <<>>, <<>>, <<Ord("f")>>)>>,
                <<>>, <<>>, encodeLoxNumber(0))>>

\* C14: a for statement with a clause left out parses without error: without
\* condition the While's condition is the Bool literal true, without
\* initializer nothing stands before the While, without increment nothing
\* follows the body.
C14_ForOmittedClauses ==
  (tokens \in ForOmitInputs /\ pc # "parse") =>
    \A c \in ForOmitCases :
      tokens = c.tokens =>
        /\ ~ParseFaulted
        /\ parseErr = NoErr
        /\ LET for == prgm[1].Right[1]
               while == for.Right[Len(for.Right)]
           IN /\ for.Type = "BlockNT"
              /\ while.Type = "WhileStmtNT"
              /\ Len(for.Right) = IF "init" \in c.omitted THEN 1 ELSE 2
              /\ "cond" \in c.omitted => while.Left = BoolNode(TRUE)
              /\ "cond" \notin c.omitted => while.Left[1].Type = "ComparisonNT"
              /\ while.Right[1].Type = "BlockNT"
              /\ while.Right[1].Right[1].Type = "PrintStmtNT"
              /\ Len(while.Right[1].Right) = IF "incr" \in c.omitted THEN 1 ELSE 2

\* C15: var x; binds x to nil in the current environment, and the statement
\* after it runs.
C15_VarWithoutInitializer ==
  (tokens \in VarNoInitInputs /\ AtRest) =>
    /\ pc = "done"
    /\ ErrorCount(log) = 0
    /\ Printed(log) = << <<Ord("9")>> >>
    /\ LET scope == IF tokens = VarNoInitProgram("top") THEN 1 ELSE 2
       IN /\ Defines([envs |-> envs], scope, <<Ord("x")>>)
          /\ ValueOf([envs |-> envs], scope, <<Ord("x")>>)[1].Type = "NilNT"

BindCount(l) == Cardinality({ i \in 1..Len(l) : l[i].kind = "bind" })

\* C16: a var or fun declaration of a name the current environment already
\* binds reports one run-time error, does not evaluate the initializer (g is
\* not called: nothing of it is printed and no environment is made for it)
\* and leaves every binding as it was; when only an enclosing environment
\* binds the name, the declaration is no error and binds it in the current one.
C16_Redeclaration ==
  (tokens \in RedeclInputs /\ AtRest) =>
    \A c \in RedeclCases : c.tokens = tokens =>
      LET st == [envs |-> envs]
          x == <<Ord("x")>>
      IN /\ pc = "done"
         /\ Defines(st, 1, x) = (c.site # "block")
         /\ c.site = "global" =>
              /\ ErrorCount(log) = 1
              /\ Len(envs) = 1
              /\ BindCount(log) = 2
              /\ Node_ToString(ValueOf(st, 1, x)) = LitText(c.first)
              /\ \A i \in 1..Len(Printed(log)) : Printed(log)[i] # LitText(c.second)
         /\ c.site = "block" =>
              /\ ErrorCount(log) = 1
              /\ Len(envs) = 2
              /\ BindCount(log) = 2
              /\ Node_ToString(ValueOf(st, 2, x)) = LitText(c.first)
              /\ \A i \in 1..Len(Printed(log)) : Printed(log)[i] # LitText(c.second)
         /\ c.site = "enclosing" =>
              /\ ErrorCount(log) = 0
              /\ BindCount(log) = IF c.kind = "var" THEN 4 ELSE 3
              /\ Node_ToString(ValueOf(st, 1, x)) = LitText(c.first)
              /\ Defines(st, 2, x)
              /\ c.kind = "var" =>
                   Printed(log) = << LitText(c.second), LitText(c.second), LitText(c.first) >>
              /\ c.kind = "fun" => ValueOf(st, 2, x)[1].Type = "FunctionNT"

\* var x = 1; var x = g(2); print x;  has run: one error, and x is still 1
C16_Witness ==
  /\ tokens = RedeclProgram("global", "var", <<Num(1)>>, <<Num(2)>>)
  /\ pc = "done"
  /\ ErrorCount(log) = 1
  /\ Node_ToString(Global("x")) = <<Ord("1")>>

\* C17: x = e changes the binding of x in the innermost environment on the
\* chain that defines x, and no other binding; when no environment on the
\* chain defines x it reports a run-time error, and no binding is made or
\* changed.
C17_AssignInnermost ==
  (tokens \in SetInputs /\ AtRest) =>
    \A c \in SetCases : c.tokens = tokens =>
      LET st == [envs |-> envs]
          x == <<Ord("x")>>
          target == IF c.defs = {} THEN 0
                    ELSE CHOOSE l \in c.defs : \A m \in c.defs : m <= l
      IN /\ pc = "done"
         /\ Len(envs) = 3
         /\ ErrorCount(log) = IF c.defs = {} THEN 1 ELSE 0
         /\ BindCount(log) = Cardinality(c.defs) + (IF c.defs = {} THEN 0 ELSE 1)
         /\ envs[1].Values[1] = setNativeFunctions.Values[1]
         /\ \A l \in SetLevels :
              /\ Len(envs[l].Values) = (IF l = 1 THEN 1 ELSE 0) + (IF l \in c.defs THEN 1 ELSE 0)
              /\ Defines(st, l, x) = (l \in c.defs)
              /\ l \in c.defs =>
                   Node_ToString(ValueOf(st, l, x)) =
                     LitText(IF l = target THEN c.value ELSE SetOriginal(l))

\* var x = 1; { var x = 2; { x = 0; } }  has run: the block's x is 0, the
\* global one still 1
C17_Witness ==
  /\ tokens = SetProgram({1, 2}, <<Num(0)>>)
  /\ pc = "done"
  /\ Node_ToString(ValueOf([envs |-> envs], 2, <<Ord("x")>>)) = <<Ord("0")>>
  /\ Node_ToString(ValueOf([envs |-> envs], 1, <<Ord("x")>>)) = <<Ord("1")>>

\* x = 0; with x declared nowhere has run: an error, and no binding of x
C17_WitnessUndeclared ==
  /\ tokens = SetProgram({}, <<Num(0)>>)
  /\ pc = "done"
  /\ ErrorCount(log) = 1
  /\ BindCount(log) = 0

C19_NoFaultAfterCleanParse ==
  (tokens \in UndefInputs /\ AtRest) =>
    /\ parseErr = NoErr
    /\ pc = "done"
    /\ ErrorCount(log) >= 1

\* C20: a binary operator with no parsable right operand, as in print 1 + ;
\* makes Parse return an error; the statement is not accepted with the
\* operator dropped.
C20_DanglingOperatorRejected ==
  (tokens \in DanglingInputs /\ pc # "parse") =>
    /\ ~ParseFaulted
    /\ parseErr # NoErr
    /\ pc = "parseError"

\* C21: when the expression to the left of "=" is not a plain identifier,
\* assignment returns that expression alone with the cursor still at the "=":
\* neither the "=" nor the tokens to its right are consumed.
C21_NonIdentifierTarget ==
  (tokens \in NonIdentInputs /\ pc # "parse") =>
    \A c \in NonIdentCases :
      tokens = c.tokens =>
        /\ assignment(tokens, 0).n = logicOr(tokens, 0).n
        /\ assignment(tokens, 0).cur = Len(c.target)
        /\ tokens[assignment(tokens, 0).cur + 1].Type = "Equal"

(***************************************************************************)
(* Sources with a string literal that is opened and never closed: one      *)
(* double quote, after characters that scan to tokens or white space.      *)
(***************************************************************************)
QuoteAt(src, i) ==
  /\ src[i] = Ord("\"")
  /\ \A j \in 1..Len(src) : j # i => src[j] # Ord("\"")
  /\ \A j \in 1..(i - 1) : src[j] \notin { Ord("@"), Ord("/") }

Unterminated(src) == \E i \in 1..Len(src) : QuoteAt(src, i)

\* the line of the character at i: one more than the line feeds before it
LineAt(src, i) == 1 + Cardinality({ j \in 1..(i - 1) : src[j] = Ord("\n") })

\* C22: scanning a source in which a string's opening quote has no closing
\* quote before the end of input ends with a lex error on the line of the
\* opening quote, and no String token is emitted for the unterminated text.
C22_UnterminatedString ==
  (Unterminated(source) /\ lexPc # "lex") =>
    /\ lexPc = "error"
    /\ lexErr # NoErr
    /\ \A i \in 1..Len(source) : QuoteAt(source, i) => lexLine = LineAt(source, i)
    /\ \A k \in 1..Len(lexCurrent) : lexCurrent[k].Type # "String"

\* the sources of a single character that starts a one- or two-character token
LoneOperators ==
  { [source |-> <<Ord("!")>>, type |-> "Bang"], [source |-> <<Ord("=")>>, type |-> "Equal"],
    [source |-> <<Ord("/")>>, type |-> "Slash"] }

\* C29: Lex returns normally for every source, with a token sequence ending
\* in EOF or with a lex error; a source that is one of !, =, / alone yields
\* that one-character token followed by EOF, with no read past the end of
\* the input.
C29_LexReturnsNormally ==
  /\ lexPc # "panic"
  /\ lexPc = "done" => lexErr = NoErr /\ lexCurrent[Len(lexCurrent)].Type = "EOF"
  /\ lexPc = "error" => lexErr # NoErr
  /\ \A c \in LoneOperators :
       (source = c.source /\ lexPc # "lex") =>
         lexCurrent = << newToken(c.type, c.source, 1), eofToken(1) >>

\* C23: a return statement without an expression, return;, parses without
\* error into a Return node whose expression slot is empty, and executing it
\* inside a function makes the call yield nil.
C23_BareReturn ==
  (tokens \in BareReturnInputs /\ pc # "parse") =>
    /\ ~ParseFaulted
    /\ pc # "parseError"
    /\ parseErr = NoErr
    /\ returnStmt(<<Tk("Semicolon"), EOFTok>>, 0)
         = R(<<Node("ReturnStmtNT", <<>>, <<>>, <<>>, <<>>)>>, NoErr, 1)
    /\ AtRest =>
         \A c \in BareReturnCases :
           tokens = c.tokens =>
             /\ Status = "done"
             /\ ErrorCount(log) = 0
             /\ Printed(log) = (IF c.shape = "after print" THEN << <<Ord("1")>> >> ELSE <<>>)
                                 \o << TextNil, <<Ord("9")>> >>

(***************************************************************************)
(* Interpret stops when its loop "for stmt != nil" ends or the program     *)
(* faults.  It runs for ever from a state that the step of the loop maps   *)
(* to itself: the same statement, the same environments, nothing written.  *)
(***************************************************************************)
Stuck ==
  /\ pc = "run"
  /\ stmt # <<>>
  /\ LET r == interpretStmt(1, stmt, [envs |-> envs, log |-> log, halt |-> "",
                                      fuel |-> MaxFuel])
     IN r.st.halt = "" /\ r.next = stmt /\ r.st.envs = envs /\ r.st.log = log

\* no while, no for, and no identifier followed by "("
NoLoopNoCall(toks) ==
  /\ \A i \in 1..Len(toks) : toks[i].Type \notin {"While", "For"}
  /\ \A i \in 1..(Len(toks) - 1) :
       ~(toks[i].Type = "Identifier" /\ toks[i + 1].Type = "LeftParen")

\* C24: Interpret terminates on every parsed program with no while or for
\* loop and no function call, also when a return statement occurs outside any
\* function (at top level, in a top-level block or in a branch of an if): its
\* loop never comes to a state that its step repeats for ever.
C24_TerminatesWithoutLoops ==
  NoLoopNoCall(tokens) => ~Stuck

\* C25: every argument of a call is evaluated as in the caller's environment:
\* a name in a later argument that is also the name of an earlier parameter
\* of the callee is the caller's binding.  With var a = outer and
\* fun f(a, b), the call f(first, a) binds b to outer.
C25_ArgumentsInCallerEnvironment ==
  (tokens \in ArgNameInputs /\ AtRest) =>
    \A c \in ArgNameCases :
      tokens = c.tokens =>
        /\ Status = "done"
        /\ ErrorCount(log) = 0
        /\ Printed(log) = << LitText(c.outer), <<Ord("9")>> >>

\* C26: a parenthesised expression evaluates to the value of the expression
\* inside: (e) gives what e gives, and (1 + 2) * 3 gives 9.
C26_GroupYieldsInner ==
  (tokens \in GroupInputs /\ AtRest) =>
    \A c \in GroupCases :
      tokens = c.tokens =>
        LET plain == Run(c.plain)
        IN /\ Status = plain.status
           /\ Stdout(log) = Stdout(plain.log)

\* C27: a while loop whose body is a single statement that is not a block
\* behaves as the same loop with that statement in braces: while (c) if (d) S
\* runs S in every iteration in which c and d are truthy, with the output of
\* while (c) { if (d) S }.
C27_BareWhileBody ==
  (tokens \in BareBodyInputs /\ AtRest) =>
    \A c \in BareBodyCases :
      tokens = c.tokens =>
        LET braced == Run(c.braced)
        IN /\ Status = braced.status
           /\ Stdout(log) = Stdout(braced.log)

\* C28: an assignment used as an expression performs the assignment and
\* yields the assigned value: after a = b = v; both a and b are bound to v,
\* and print b = v; prints v and leaves b bound to v.
C28_AssignmentYieldsValue ==
  (tokens \in AsExprInputs /\ AtRest) =>
    \A c \in AsExprCases :
      tokens = c.tokens =>
        /\ Status = "done"
        /\ ErrorCount(log) = 0
        /\ Printed(log) = << LitText(c.value), LitText(c.value) >>
        /\ Node_ToString(Global("b")) = LitText(c.value)
        /\ c.form # "print" => Node_ToString(Global("a")) = LitText(c.value)

====
